---- MODULE Spec2Model ----
(***************************************************************************)
(* Falling-block engines of the TETRIS-CLONE repository.                   *)
(*                                                                         *)
(* The repository holds three engines:                                     *)
(*   "shatter"  Tetris Neon Shatter  (Game/ScoreManager/Board + helpers)   *)
(*   "edition"  Tetris Neon Edition  (Game/Board/Piece/PieceBag)           *)
(*   "amber"    Amber Tetris         (GameLogic/Board/Tetromino)           *)
(* A running program is exactly one of them; the variable app says which.  *)
(*                                                                         *)
(* Grids are sequences of rows, rows are sequences of cells.  The source   *)
(* indexes from 0, TLA+ sequences from 1: source row r is grid[r + 1] and  *)
(* source column c is row[c + 1].  A cell is NoBlock when it is empty (0   *)
(* in the Neon Shatter grid, null in the other two) and the tag of a piece *)
(* kind otherwise.                                                         *)
(***************************************************************************)
EXTENDS Integers, Sequences, FiniteSets, TLC

VARIABLES
    app,            \* the engine that is running
    op,             \* history: the kind of the last step ("move" for a step
                    \* that only moves or turns the piece)
    grid,           \* Board.grid of the running engine
    gridBefore,     \* history: the grid when the completed rows were found
    clearedLines,   \* history: the row list handed to the last clearLines
    timers,         \* Amber: row lists of the scheduled compaction callbacks
    currentPiece,   \* Game.currentPiece: [type, row, col, rotation] or NoPiece
    nextPiece,      \* Game.nextPiece: its kind, "none" for null
    holdPiece,      \* Game.holdPiece: its kind, "none" for null
    canHold,        \* Game.canHold
    bag,            \* PieceBag.bag
    isRunning,      \* Game.isRunning
    isGameOver,     \* Game.isGameOver
    spawnTimers,    \* number of pending setTimeout(spawnPiece) callbacks
    locks,          \* history: number of Game.lockPiece calls so far
    nextBag,        \* Neon Shatter PieceBag.nextBag
    drawCount,      \* history: per kind, the draws of the current block of 7
    blocks,         \* history: completed blocks of 7 draws (up to MaxBlocks)
    peekCount,      \* history: the argument of the last peek, 0 once drawn on
    peekPending,    \* history: what the last peek returned and is not yet drawn
    peekMatched,    \* history: every draw since the last peek was the kind it announced
    score,          \* ScoreManager.score; Amber: GameLogic.score
    level,          \* ScoreManager.level; Amber: GameLogic.level
    linesCleared,   \* ScoreManager.lines; Amber: GameLogic.linesCleared
    targetLines,    \* ScoreManager.targetLines
    combo,          \* ScoreManager.combo
    backToBack,     \* ScoreManager.backToBack
    highScores,     \* ScoreManager.highScores: the scores of its entries
    isNewHighScore, \* ScoreManager.isNewHighScore
    statisticsCombo,\* Neon Shatter Board.statistics.combo
    distanceFallen, \* Neon Shatter Piece.distanceFallen of the current piece
    lastClear,      \* history: the last lock as the score keeper saw it
    tetrisStreak,   \* history: number of locks in a row that completed 4 rows
    softCells,      \* history: cells the current piece descended by soft drop
    state,          \* Neon Shatter Game.state
    enabled,        \* InputHandler.enabled; Neon Edition: Input.enabled
    isClearing,     \* Neon Shatter Board.isClearing
    linesToClear,   \* Neon Shatter Board.linesToClear
    nextPieces,     \* Neon Shatter Game.nextPieces
    locked,         \* Neon Shatter Piece.locked of the current piece
    isInLockDelay,  \* Neon Shatter Piece.isInLockDelay of the current piece
    lockDelayMoves, \* Neon Shatter Piece.lockDelayMoves of the current piece;
                    \* Neon Edition, where its moves are counted: Game.lockMoves
    groundedMoves,  \* history: the moves and turns the current piece has made while it rested
    softDropping,   \* Neon Shatter Piece.softDropping of the current piece
    ghostRow,       \* Neon Shatter Piece.ghostRow of the current piece
    lastSpawn,      \* history: the call of spawnNextPiece in the last step, if any
    heldAt,         \* history: the number of locks when a hold last took effect
    isPaused,       \* Neon Edition Game.isPaused
    appIsRunning,   \* Neon Edition TetrisApp.isRunning
    appIsPaused,    \* Neon Edition TetrisApp.isPaused
    keys,           \* Neon Edition Input.keys of the pause key
    pressed,        \* whether the pause key is down
    fallSpeed,      \* Amber GameLogic.fallSpeed, in milliseconds
    dropCounter,    \* Neon Edition Game.dropCounter, in milliseconds
    lockDelay,      \* Neon Edition Game.lockDelay, in milliseconds
    groundedTime    \* history: the milliseconds the current piece has rested without input

boardVars == <<grid, gridBefore, clearedLines, timers>>

gameVars == <<currentPiece, nextPiece, holdPiece, canHold, bag, isRunning,
              isGameOver, spawnTimers, locks>>

\* maintained by the specification of the bags only
bagVars == <<nextBag, drawCount, blocks, peekCount, peekPending, peekMatched>>

\* maintained by the specification of the scores only
scoreVars == <<score, level, linesCleared, targetLines, combo, backToBack, statisticsCombo,
               distanceFallen, lastClear, tetrisStreak, softCells, highScores,
               isNewHighScore>>

\* maintained by the specifications of the Neon Shatter game only
pieceVars == <<state, isClearing, linesToClear, nextPieces, locked,
               isInLockDelay, lockDelayMoves, groundedMoves, softDropping,
               ghostRow, lastSpawn>>

\* maintained by the specification of the Neon Edition app only
appVars == <<isPaused, appIsRunning, appIsPaused, keys, pressed>>

\* maintained by the specifications of the Amber game only
amberVars == <<fallSpeed>>

\* maintained by the specification of the Neon Edition lock delay only
timeVars == <<dropCounter, lockDelay, groundedTime>>

controlVars == <<pieceVars, enabled, heldAt, appVars, amberVars, timeVars>>

vars == <<app, op, boardVars, gameVars, bagVars, scoreVars, controlVars>>

(***************************************************************************)
(* Program constants                                                       *)
(***************************************************************************)
WIDTH == 10

HEIGHT == 20

TOTAL_HEIGHT == 22

SPAWN_ROW == 20

SPAWN_COL == 4

BOARD_WIDTH == 10

BOARD_HEIGHT == 20

PIECE_TYPES == <<"I", "O", "T", "S", "Z", "J", "L">>

\* SCORING.LINE_CLEAR: points of a clear by its number of rows
LINE_CLEAR == [n \in 1..4 |-> <<100, 300, 500, 800>>[n]]

SOFT_DROP == 1

HARD_DROP == 2

COMBO_MULTIPLIER == 50

\* SCORING.BACK_TO_BACK_MULTIPLIER, 1.5, as <<numerator, denominator>>
BACK_TO_BACK_MULTIPLIER == <<3, 2>>

PERFECT_CLEAR == 1000

LINES_PER_LEVEL == 10

\* Amber CONFIG.LINES_PER_LEVEL
CONFIG_LINES_PER_LEVEL == 10

\* Amber CONFIG.INITIAL_FALL_SPEED
INITIAL_FALL_SPEED == 1000

\* Amber CONFIG.MIN_FALL_SPEED
MIN_FALL_SPEED == 100

\* Amber CONFIG.SPEED_INCREASE_PER_LEVEL
SPEED_INCREASE_PER_LEVEL == 50

Engines == {"shatter", "edition", "amber"}

\* grid dimensions of an engine
GridHeight(a) == IF a = "amber" THEN BOARD_HEIGHT ELSE TOTAL_HEIGHT

GridWidth(a) == IF a = "amber" THEN BOARD_WIDTH ELSE WIDTH

(***************************************************************************)
(* Bounds of the model                                                     *)
(***************************************************************************)
\* number of bottom rows of a test grid that are drawn from RowPatterns
StackRows == 5

\* number of Game.lockPiece calls explored in one game
MaxLocks == 6

\* completed blocks of 7 draws that are counted
MaxBlocks == 2

\* largest argument of peek
MaxPeek == 8

\* number of pieces locked in one run of the score keepers
MaxPieces == 4

\* cells a piece descends before it rests, in the runs of the score keepers
MaxFall == 1

\* the values of Math.random() explored where a shuffle is not explored for
\* every outcome: 0 and 1/6
RandomSamples == {<<0, 6>>, <<1, 6>>}

(***************************************************************************)
(* Small helpers                                                           *)
(***************************************************************************)
Min(a, b) == IF a < b THEN a ELSE b

Max(a, b) == IF a > b THEN a ELSE b

Range(s) == {s[i] : i \in 1..Len(s)}

\* Array(n).fill(v)
Fill(n, v) == [i \in 1..n |-> v]

\* the sequence s without its element at (1-based) position i
RemoveAt(s, i) == [j \in 1..(Len(s) - 1) |-> IF j < i THEN s[j] ELSE s[j + 1]]

\* Array.prototype.splice(index, 1) with a 0-based index: past the end it
\* removes nothing
Splice(s, index) == IF index < Len(s) THEN RemoveAt(s, index + 1) ELSE s

\* an empty cell: 0 in the Neon Shatter grid, null in the other grids
NoBlock == "none"

EmptyRow(w) == Fill(w, NoBlock)

EmptyGrid(h, w) == Fill(h, EmptyRow(w))

RowComplete(row) == \A c \in 1..Len(row) : row[c] # NoBlock

(***************************************************************************)
(* Line detection and removal                                              *)
(***************************************************************************)
\* 0-based indices of the complete rows among rows from..h-1, ascending
RECURSIVE CompleteRowsFrom(_, _, _)
CompleteRowsFrom(g, from, h) ==
    IF from >= h THEN <<>>
    ELSE IF RowComplete(g[from + 1])
         THEN <<from>> \o CompleteRowsFrom(g, from + 1, h)
         ELSE CompleteRowsFrom(g, from + 1, h)

\* Helpers.findCompletedLines(board) and Neon Edition Board.checkLines():
\* both scan rows 0..TOTAL_HEIGHT-1
findCompletedLines(board) == CompleteRowsFrom(board, 0, TOTAL_HEIGHT)

\* Amber Board.checkLines(): scans rows 0..height-1
checkLines(board) == CompleteRowsFrom(board, 0, BOARD_HEIGHT)

\* lines.forEach(row => newBoard.splice(row, 1)), in the order of the list
RECURSIVE SpliceEach(_, _)
SpliceEach(board, lines) ==
    IF lines = <<>> THEN board
    ELSE SpliceEach(Splice(board, Head(lines)), Tail(lines))

\* while (newBoard.length < TOTAL_HEIGHT) newBoard.unshift(empty row)
RECURSIVE UnshiftUpTo(_, _)
UnshiftUpTo(board, h) ==
    IF Len(board) < h THEN UnshiftUpTo(<<EmptyRow(WIDTH)>> \o board, h)
    ELSE board

\* Helpers.clearLines(board, linesToClear) of Neon Shatter
clearLines(board, lines) == UnshiftUpTo(SpliceEach(board, lines), TOTAL_HEIGHT)

\* lines.sort((a, b) => a - b)
RECURSIVE SortAscending(_)
SortAscending(lines) ==
    IF lines = <<>> THEN <<>>
    ELSE LET m == CHOOSE x \in Range(lines) : \A y \in Range(lines) : x <= y
             i == CHOOSE k \in 1..Len(lines) : lines[k] = m
         IN  <<m>> \o SortAscending(RemoveAt(lines, i))

\* lines.sort((a, b) => b - a)
RECURSIVE SortDescending(_)
SortDescending(lines) ==
    IF lines = <<>> THEN <<>>
    ELSE LET m == CHOOSE x \in Range(lines) : \A y \in Range(lines) : x >= y
             i == CHOOSE k \in 1..Len(lines) : lines[k] = m
         IN  <<m>> \o SortDescending(RemoveAt(lines, i))

\* Neon Edition Board.clearLines(lines): splice every listed row, then
\* unshift lines.length empty rows
BoardClearLines(board, lines) ==
    IF Len(lines) = 0 THEN board
    ELSE Fill(Len(lines), EmptyRow(WIDTH)) \o SpliceEach(board, SortAscending(lines))

\* Amber Board.clearLines, synchronous part: every cell of a listed row
\* becomes null
NullRows(board, lines) ==
    [y \in 1..Len(board) |->
        IF (y - 1) \in Range(lines) THEN EmptyRow(BOARD_WIDTH) ELSE board[y]]

\* Amber Board.clearLines, body of the forEach of the deferred callback:
\* for (y = clearedLine; y > 0; y--) grid[y] = grid[y - 1]; grid[0] = null
DropLinesAbove(board, clearedLine) ==
    [y \in 1..Len(board) |->
        IF y = 1 THEN EmptyRow(BOARD_WIDTH)
        ELSE IF y - 1 <= clearedLine THEN board[y - 1]
        ELSE board[y]]

RECURSIVE DropEach(_, _)
DropEach(board, lines) ==
    IF lines = <<>> THEN board
    ELSE DropEach(DropLinesAbove(board, Head(lines)), Tail(lines))

\* Amber Board.clearLines, the deferred callback as a whole
CompactLines(board, lines) == DropEach(board, SortDescending(lines))

(***************************************************************************)
(* Neon Edition: Piece and Board                                           *)
(***************************************************************************)
\* PIECES[type].shape: per rotation the [row, col] offsets of the four blocks
PIECES ==
    [I |-> << <<<<0,0>>, <<0,1>>, <<0,2>>, <<0,3>>>>,
              <<<<0,2>>, <<1,2>>, <<2,2>>, <<3,2>>>>,
              <<<<2,0>>, <<2,1>>, <<2,2>>, <<2,3>>>>,
              <<<<0,1>>, <<1,1>>, <<2,1>>, <<3,1>>>> >>,
     O |-> << <<<<0,1>>, <<0,2>>, <<1,1>>, <<1,2>>>>,
              <<<<0,1>>, <<0,2>>, <<1,1>>, <<1,2>>>>,
              <<<<0,1>>, <<0,2>>, <<1,1>>, <<1,2>>>>,
              <<<<0,1>>, <<0,2>>, <<1,1>>, <<1,2>>>> >>,
     T |-> << <<<<0,1>>, <<1,0>>, <<1,1>>, <<1,2>>>>,
              <<<<0,1>>, <<1,1>>, <<1,2>>, <<2,1>>>>,
              <<<<1,0>>, <<1,1>>, <<1,2>>, <<2,1>>>>,
              <<<<0,1>>, <<1,0>>, <<1,1>>, <<2,1>>>> >>,
     S |-> << <<<<0,1>>, <<0,2>>, <<1,0>>, <<1,1>>>>,
              <<<<0,1>>, <<1,1>>, <<1,2>>, <<2,2>>>>,
              <<<<1,1>>, <<1,2>>, <<2,0>>, <<2,1>>>>,
              <<<<0,0>>, <<1,0>>, <<1,1>>, <<2,1>>>> >>,
     Z |-> << <<<<0,0>>, <<0,1>>, <<1,1>>, <<1,2>>>>,
              <<<<0,2>>, <<1,1>>, <<1,2>>, <<2,1>>>>,
              <<<<1,0>>, <<1,1>>, <<2,1>>, <<2,2>>>>,
              <<<<0,1>>, <<1,0>>, <<1,1>>, <<2,0>>>> >>,
     J |-> << <<<<0,0>>, <<1,0>>, <<1,1>>, <<1,2>>>>,
              <<<<0,1>>, <<0,2>>, <<1,1>>, <<2,1>>>>,
              <<<<1,0>>, <<1,1>>, <<1,2>>, <<2,2>>>>,
              <<<<0,1>>, <<1,1>>, <<2,0>>, <<2,1>>>> >>,
     L |-> << <<<<0,2>>, <<1,0>>, <<1,1>>, <<1,2>>>>,
              <<<<0,1>>, <<1,1>>, <<2,1>>, <<2,2>>>>,
              <<<<1,0>>, <<1,1>>, <<1,2>>, <<2,0>>>>,
              <<<<0,0>>, <<0,1>>, <<1,1>>, <<2,1>>>> >>]

\* Game.currentPiece === null
NoPiece == [type |-> "none", row |-> 0, col |-> 0, rotation |-> 0]

\* new Piece(type)
Piece(type) == [type |-> type, row |-> SPAWN_ROW, col |-> SPAWN_COL, rotation |-> 0]

getCurrentShape(piece) == PIECES[piece.type][piece.rotation + 1]

\* Piece.move(rowDelta, colDelta)
move(piece, rowDelta, colDelta) ==
    [piece EXCEPT !.row = piece.row + rowDelta, !.col = piece.col + colDelta]

\* Piece.rotateClockwise / Piece.rotateCounterClockwise
rotateClockwise(piece) == [piece EXCEPT !.rotation = (piece.rotation + 1) % 4]

rotateCounterClockwise(piece) == [piece EXCEPT !.rotation = (piece.rotation - 1 + 4) % 4]

\* Board.isValidPosition(row, col)
isValidPosition(g, row, col) ==
    IF col < 0 \/ col >= WIDTH THEN FALSE
    ELSE IF row < 0 \/ row >= TOTAL_HEIGHT THEN FALSE
    ELSE g[row + 1][col + 1] = NoBlock

\* Board.canPlacePiece(piece, offsetRow, offsetCol)
canPlacePiece(g, piece, offsetRow, offsetCol) ==
    LET shape == getCurrentShape(piece)
    IN  \A i \in 1..Len(shape) :
            isValidPosition(g, piece.row + offsetRow + shape[i][1],
                               piece.col + offsetCol + shape[i][2])

\* Board.lockPiece(piece): writes the kind into the cells of the piece whose
\* row is inside the board
BoardLockPiece(g, piece) ==
    LET shape == getCurrentShape(piece)
        Covered(row, col) ==
            \E i \in 1..Len(shape) :
                /\ piece.row + shape[i][1] = row
                /\ piece.col + shape[i][2] = col
                /\ row >= 0 /\ row < TOTAL_HEIGHT
    IN  [y \in 1..Len(g) |->
            [x \in 1..Len(g[y]) |->
                IF Covered(y - 1, x - 1) THEN piece.type ELSE g[y][x]]]

\* Board.getGhostPosition(piece)
RECURSIVE GhostFrom(_, _, _)
GhostFrom(g, piece, ghost) ==
    IF canPlacePiece(g, piece, ghost - piece.row + 1, 0)
    THEN GhostFrom(g, piece, ghost + 1)
    ELSE ghost

getGhostPosition(g, piece) == GhostFrom(g, piece, piece.row)

(***************************************************************************)
(* Neon Edition: PieceBag                                                  *)
(***************************************************************************)
\* A value of Math.random() is a fraction <<numerator, denominator>> in [0, 1)
\* Math.floor(Math.random() * n)
RandomIndex(r, n) == (r[1] * n) \div r[2]

\* a swap that loses the element at i: s[i] = s[j] alone
SwapOverwriting(s, i, j) == [s EXCEPT ![i + 1] = s[j + 1]]

\* [s[i], s[j]] = [s[j], s[i]] with 0-based i and j
Swap(s, i, j) == [s EXCEPT ![i + 1] = s[j + 1], ![j + 1] = s[i + 1]]

\* Fisher-Yates: for (i = from; i > 0; i--) swap(i, floor(random * (i + 1))),
\* consuming the random values rs from its head
RECURSIVE FisherYates(_, _, _)
FisherYates(s, from, rs) ==
    IF from <= 0 THEN s
    ELSE FisherYates(Swap(s, from, RandomIndex(Head(rs), from + 1)), from - 1, Tail(rs))

\* PieceBag.refillBag() under the random values rs
refillBag(rs) == FisherYates(PIECE_TYPES, Len(PIECE_TYPES) - 1, rs)

\* Helpers.shuffleArray(array) under the random values rs
shuffleArray(array, rs) == FisherYates(array, Len(array) - 1, rs)

\* Helpers.generatePieceBag(): Object.keys(PIECES) shuffled
generatePieceBag(rs) == shuffleArray(PIECE_TYPES, rs)

\* Neon Shatter PieceBag.peek(count): [...bag, ...nextBag].slice(0, count)
peek(b, nb, count) == SubSeq(b \o nb, 1, Min(count, Len(b \o nb)))

\* the random values one shuffle consumes, drawn from the set samples
ShuffleDraws(samples) == [1..(Len(PIECE_TYPES) - 1) -> samples]

\* the outcomes of PieceBag.refillBag() explored in a game
SampledBags == {refillBag(rs) : rs \in ShuffleDraws(RandomSamples)}

\* the outcomes of Helpers.generatePieceBag() explored
SampledPieceBags == {generatePieceBag(rs) : rs \in ShuffleDraws(RandomSamples)}

\* PieceBag.getNext(): the bags it may pop from, b itself or, when b is
\* empty, one of the refilled bags
BagsOfGetNext(b, refilled) == IF Len(b) = 0 THEN refilled ELSE {b}

\* this.bag.pop(): the popped kind and the remaining bag
PopKind(b) == b[Len(b)]

PopRest(b) == SubSeq(b, 1, Len(b) - 1)

(***************************************************************************)
(* SpecClear: line removal applied to grids holding completed rows         *)
(*                                                                         *)
(* The grids are the grids a lock can leave behind: a stack in the bottom  *)
(* StackRows rows, each of them empty, complete, or short of one cell at   *)
(* the left or at the right edge.  Row k of the stack is built of blocks   *)
(* of one kind of its own, so that every non-empty row is recognisable.    *)
(* One piece spans at most four rows, so the completed rows of a grid lie  *)
(* within four consecutive rows.                                           *)
(***************************************************************************)
RowShapes == {"empty", "complete", "gapLeft", "gapRight"}

StackRow(k, shape, w) ==
    LET kind == PIECE_TYPES[((k - 1) % Len(PIECE_TYPES)) + 1]
    IN  [c \in 1..w |->
            IF shape = "empty" THEN NoBlock
            ELSE IF shape = "gapLeft" /\ c = 1 THEN NoBlock
            ELSE IF shape = "gapRight" /\ c = w THEN NoBlock
            ELSE kind]

StackGrid(shapes, h, w) ==
    [y \in 1..h |->
        IF y <= h - StackRows THEN EmptyRow(w)
        ELSE StackRow(y - (h - StackRows), shapes[y - (h - StackRows)], w)]

\* the completed rows of an engine's grid, as the engine finds them
CompletedLines(a, g) == IF a = "amber" THEN checkLines(g) ELSE findCompletedLines(g)

NoDraws == [k \in Range(PIECE_TYPES) |-> 0]

\* the history of the bags is not in use
BagIdle ==
    /\ nextBag = <<>>
    /\ drawCount = NoDraws
    /\ blocks = 0
    /\ peekCount = 0
    /\ peekPending = <<>>
    /\ peekMatched = TRUE

\* no game is running: the piece, bag and controller fields are at rest
GameIdle ==
    /\ currentPiece = NoPiece
    /\ nextPiece = "none"
    /\ holdPiece = "none"
    /\ canHold = TRUE
    /\ bag = <<>>
    /\ isRunning = FALSE
    /\ isGameOver = FALSE
    /\ spawnTimers = 0
    /\ locks = 0

\* no lock has been scored yet
NoClear == [numLines |-> 0, level |-> 0, combo |-> 0, award |-> 0, delta |-> 0,
            perfect |-> FALSE]

\* the score keeper is as constructed and stays so
ScoreIdle ==
    /\ score = 0
    /\ level = 1
    /\ linesCleared = 0
    /\ targetLines = LINES_PER_LEVEL
    /\ combo = 0
    /\ backToBack = FALSE
    /\ highScores = <<>>
    /\ isNewHighScore = FALSE
    /\ statisticsCombo = 0
    /\ distanceFallen = 0
    /\ lastClear = NoClear
    /\ tetrisStreak = 0
    /\ softCells = 0

\* no call of spawnNextPiece
NoSpawn == [type |-> "none", overlaps |-> FALSE, emitted |-> FALSE, state |-> "none",
            isClearing |-> FALSE, completed |-> 0]

\* the fields of the Neon Shatter game, its board, input and piece as constructed
ControlIdle ==
    /\ state = "MENU"
    /\ enabled = TRUE
    /\ isClearing = FALSE
    /\ linesToClear = <<>>
    /\ nextPieces = <<>>
    /\ locked = FALSE
    /\ isInLockDelay = FALSE
    /\ lockDelayMoves = 0
    /\ groundedMoves = 0
    /\ softDropping = FALSE
    /\ ghostRow = 0
    /\ lastSpawn = NoSpawn
    /\ heldAt = -1
    /\ isPaused = FALSE
    /\ appIsRunning = FALSE
    /\ appIsPaused = FALSE
    /\ keys = FALSE
    /\ pressed = FALSE
    /\ dropCounter = 0
    /\ lockDelay = 0
    /\ groundedTime = 0
    /\ fallSpeed = INITIAL_FALL_SPEED

OnePieceLines(ls) == Len(ls) <= 4 /\ (Len(ls) > 0 => ls[Len(ls)] - ls[1] <= 3)

InitClear ==
    /\ app \in Engines
    /\ op = "init"
    /\ \E shapes \in [1..StackRows -> RowShapes] :
           grid = StackGrid(shapes, GridHeight(app), GridWidth(app))
    /\ OnePieceLines(CompletedLines(app, grid))
    /\ gridBefore = grid
    /\ clearedLines = <<>>
    /\ timers = <<>>
    /\ GameIdle
    /\ BagIdle
    /\ ScoreIdle
    /\ ControlIdle

\* Neon Shatter Board.completeLineClear over the rows found by placePiece
ShatterClearLines ==
    /\ app = "shatter"
    /\ op = "init"
    /\ Len(findCompletedLines(grid)) > 0
    /\ clearedLines' = findCompletedLines(grid)
    /\ gridBefore' = grid
    /\ grid' = clearLines(grid, findCompletedLines(grid))
    /\ op' = "clearLines"
    /\ UNCHANGED <<app, timers, gameVars, bagVars, scoreVars, controlVars>>

\* Neon Edition Game.lockPiece: checkLines, then Board.clearLines
EditionClearLines ==
    /\ app = "edition"
    /\ op = "init"
    /\ Len(findCompletedLines(grid)) > 0
    /\ clearedLines' = findCompletedLines(grid)
    /\ gridBefore' = grid
    /\ grid' = BoardClearLines(grid, findCompletedLines(grid))
    /\ op' = "clearLines"
    /\ UNCHANGED <<app, timers, gameVars, bagVars, scoreVars, controlVars>>

\* Amber GameLogic.lockPiece: checkLines, then Board.clearLines, which
\* empties the rows at once and schedules the compaction
AmberClearLines ==
    /\ app = "amber"
    /\ op = "init"
    /\ Len(checkLines(grid)) > 0
    /\ clearedLines' = checkLines(grid)
    /\ gridBefore' = grid
    /\ grid' = NullRows(grid, checkLines(grid))
    /\ timers' = Append(timers, checkLines(grid))
    /\ op' = "clearLines"
    /\ UNCHANGED <<app, gameVars, bagVars, scoreVars, controlVars>>

\* Amber: the callback scheduled by Board.clearLines runs
AmberCompact ==
    /\ app = "amber"
    /\ Len(timers) > 0
    /\ grid' = CompactLines(grid, Head(timers))
    /\ timers' = Tail(timers)
    /\ op' = "compacted"
    /\ UNCHANGED <<app, gridBefore, clearedLines, gameVars, bagVars, scoreVars, controlVars>>

NextClear ==
    \/ ShatterClearLines
    \/ EditionClearLines
    \/ AmberClearLines
    \/ AmberCompact

SpecClear == InitClear /\ [][NextClear]_vars

(***************************************************************************)
(* Reference of line removal                                               *)
(***************************************************************************)
\* the rows of g that are not listed, in their top-to-bottom order
RECURSIVE KeptRows(_, _)
KeptRows(g, ls) ==
    IF g = <<>> THEN <<>>
    ELSE LET rest == KeptRows(Tail(g), [i \in 1..Len(ls) |-> ls[i] - 1])
         IN  IF 0 \in Range(ls) THEN rest ELSE <<Head(g)>> \o rest

\* drop the listed rows, keep the others in order, pad empty rows at the top
RefClear(g, ls) ==
    LET kept == KeptRows(g, ls)
    IN  Fill(Len(g) - Len(kept), EmptyRow(Len(g[1]))) \o kept

\* C1: in the Neon engines the grid after clearing the completed rows equals
\* the reference: exactly the listed rows are dropped, all other rows keep
\* their order and empty rows are padded at the top.
C1_NeonClearMatchesReference ==
    (app \in {"shatter", "edition"} /\ op = "clearLines")
        => grid = RefClear(gridBefore, clearedLines)

\* C2: in the Amber engine the grid after the deferred compaction equals the
\* reference: cleared rows removed, remaining rows shifted down by the number
\* of cleared rows below them, empty rows at the top.
C2_AmberCompactMatchesReference ==
    (app = "amber" /\ op = "compacted")
        => grid = RefClear(gridBefore, clearedLines)

(***************************************************************************)
(* SpecEdition: a game of the Neon Edition engine                          *)
(*                                                                         *)
(* Time is abstracted: a gravity tick is an update() whose drop interval   *)
(* has elapsed, and a grounded piece may lock on any such tick (its lock   *)
(* delay has run out).                                                     *)
(***************************************************************************)
InitEdition ==
    /\ app = "edition"
    /\ op = "new Game"
    /\ grid = EmptyGrid(TOTAL_HEIGHT, WIDTH)
    /\ gridBefore = grid
    /\ clearedLines = <<>>
    /\ timers = <<>>
    /\ currentPiece = NoPiece
    /\ nextPiece = "none"
    /\ holdPiece = "none"
    /\ canHold = TRUE
    /\ bag \in SampledBags
    /\ isRunning = FALSE
    /\ isGameOver = FALSE
    /\ spawnTimers = 0
    /\ locks = 0
    /\ BagIdle
    /\ ScoreIdle
    /\ ControlIdle

\* Game.spawnPiece() on the grid g with nextPiece of the kind and the bag b
SpawnPiece(g, kind, b, running) ==
    \E full \in BagsOfGetNext(b, SampledBags) :
        /\ currentPiece' = Piece(kind)
        /\ nextPiece' = PopKind(full)
        /\ bag' = PopRest(full)
        /\ canHold' = TRUE
        /\ IF canPlacePiece(g, Piece(kind), 0, 0)
           THEN isGameOver' = isGameOver /\ isRunning' = running
           ELSE isGameOver' = TRUE /\ isRunning' = FALSE

\* Game.start()
Start ==
    /\ app = "edition"
    /\ op = "new Game"
    /\ \E full \in SampledBags :
           SpawnPiece(EmptyGrid(TOTAL_HEIGHT, WIDTH), PopKind(full), PopRest(full), TRUE)
    /\ grid' = EmptyGrid(TOTAL_HEIGHT, WIDTH)
    /\ op' = "start"
    /\ UNCHANGED <<app, gridBefore, clearedLines, timers, holdPiece, spawnTimers, locks,
                   bagVars, scoreVars, controlVars>>

\* Game.lockPiece() with the current piece at the placement piece
LockPiece(piece) ==
    /\ locks < MaxLocks
    /\ gridBefore' = BoardLockPiece(grid, piece)
    /\ clearedLines' = findCompletedLines(gridBefore')
    /\ grid' = BoardClearLines(gridBefore', clearedLines')
    /\ currentPiece' = piece
    /\ spawnTimers' = spawnTimers + 1
    /\ locks' = locks + 1
    /\ UNCHANGED <<app, timers, nextPiece, holdPiece, canHold, bag,
                   isRunning, isGameOver, bagVars, scoreVars, controlVars>>

\* Game.update() when the drop interval has elapsed
Update ==
    /\ app = "edition"
    /\ isRunning /\ ~isGameOver
    /\ currentPiece # NoPiece
    /\ op' = IF canPlacePiece(grid, currentPiece, 1, 0) THEN "move" ELSE "lockPiece"
    /\ IF canPlacePiece(grid, currentPiece, 1, 0)
       THEN /\ currentPiece' = move(currentPiece, 1, 0)
            /\ UNCHANGED <<app, boardVars, nextPiece, holdPiece, canHold, bag,
                           isRunning, isGameOver, spawnTimers, locks, bagVars, scoreVars, controlVars>>
       ELSE LockPiece(currentPiece)

\* Game.movePiece(direction)
MovePiece(direction) ==
    /\ app = "edition"
    /\ currentPiece # NoPiece /\ ~isGameOver
    /\ canPlacePiece(grid, currentPiece, 0, direction)
    /\ currentPiece' = move(currentPiece, 0, direction)
    /\ op' = "move"
    /\ UNCHANGED <<app, boardVars, nextPiece, holdPiece, canHold, bag,
                   isRunning, isGameOver, spawnTimers, locks, bagVars, scoreVars, controlVars>>

\* the offsets of Game.tryWallKicks(), [rowOffset, colOffset]
kicks == << <<0, 1>>, <<0, -1>>, <<0, 2>>, <<0, -2>>, <<-1, 0>>, <<-1, 1>>, <<-1, -1>> >>

\* Game.tryWallKicks(): the piece moved by the first offset that fits, or the
\* piece itself when none does
tryWallKicks(g, piece) ==
    LET fits == {i \in 1..Len(kicks) : canPlacePiece(g, piece, kicks[i][1], kicks[i][2])}
    IN  IF fits = {} THEN piece
        ELSE LET i == CHOOSE k \in fits : \A m \in fits : k <= m
             IN  move(piece, kicks[i][1], kicks[i][2])

\* a turn that keeps the turned piece when no placement fits
rotatePieceNoRevert(g, piece, direction) ==
    LET rotated == IF direction > 0 THEN rotateClockwise(piece)
                   ELSE rotateCounterClockwise(piece)
    IN  IF canPlacePiece(g, rotated, 0, 0) THEN rotated
        ELSE tryWallKicks(g, rotated)

\* the piece after Game.rotatePiece(direction)
rotatePiece(g, piece, direction) ==
    LET rotated == IF direction > 0 THEN rotateClockwise(piece)
                   ELSE rotateCounterClockwise(piece)
    IN  IF canPlacePiece(g, rotated, 0, 0) THEN rotated
        ELSE IF tryWallKicks(g, rotated) = rotated THEN piece
        ELSE tryWallKicks(g, rotated)

\* Game.rotatePiece(direction)
RotatePiece(direction) ==
    /\ app = "edition"
    /\ currentPiece # NoPiece /\ ~isGameOver
    /\ rotatePiece(grid, currentPiece, direction) # currentPiece
    /\ currentPiece' = rotatePiece(grid, currentPiece, direction)
    /\ op' = "move"
    /\ UNCHANGED <<app, boardVars, nextPiece, holdPiece, canHold, bag,
                   isRunning, isGameOver, spawnTimers, locks, bagVars, scoreVars, controlVars>>

\* Game.softDrop()
SoftDrop ==
    /\ app = "edition"
    /\ currentPiece # NoPiece /\ ~isGameOver
    /\ op' = IF canPlacePiece(grid, currentPiece, 1, 0) THEN "move" ELSE "lockPiece"
    /\ IF canPlacePiece(grid, currentPiece, 1, 0)
       THEN /\ currentPiece' = move(currentPiece, 1, 0)
            /\ UNCHANGED <<app, boardVars, nextPiece, holdPiece, canHold, bag,
                           isRunning, isGameOver, spawnTimers, locks, bagVars, scoreVars, controlVars>>
       ELSE LockPiece(currentPiece)

\* Game.hardDrop()
HardDrop ==
    /\ app = "edition"
    /\ currentPiece # NoPiece /\ ~isGameOver
    /\ op' = "lockPiece"
    /\ LockPiece([currentPiece EXCEPT !.row = getGhostPosition(grid, currentPiece)])

\* the callback of setTimeout(() => this.spawnPiece(), SPAWN_DELAY) runs
SpawnTimer ==
    /\ app = "edition"
    /\ spawnTimers > 0
    /\ spawnTimers' = spawnTimers - 1
    /\ SpawnPiece(grid, nextPiece, bag, isRunning)
    /\ op' = "spawnPiece"
    /\ UNCHANGED <<app, boardVars, holdPiece, locks, bagVars, scoreVars, controlVars>>

\* The spawn delay (200 ms) is shorter than the gravity interval of the
\* levels explored and the player waits for the next piece: the callback of
\* a lock runs before the next tick or command takes effect.
NextEdition ==
    \/ Start
    \/ SpawnTimer
    \/ spawnTimers = 0 /\ Update
    \/ spawnTimers = 0 /\ \E direction \in {-1, 1} : MovePiece(direction)
    \/ spawnTimers = 0 /\ \E direction \in {-1, 1} : RotatePiece(direction)
    \/ spawnTimers = 0 /\ SoftDrop
    \/ spawnTimers = 0 /\ HardDrop

SpecEdition == InitEdition /\ [][NextEdition]_vars

\* C3: the grid of a Neon engine always has TOTAL_HEIGHT rows of WIDTH cells.
C3_GridDimensions ==
    app \in {"shatter", "edition"}
        => /\ Len(grid) = TOTAL_HEIGHT
           /\ \A y \in 1..Len(grid) : Len(grid[y]) = WIDTH

(***************************************************************************)
(* SpecBag: the piece bags of the two Neon engines                         *)
(*                                                                         *)
(* The constructor and the refill of the Neon Edition bag are explored for *)
(* every outcome of the shuffle: step i of the shuffle picks any index     *)
(* 0..i, which is Math.random() = j / (i + 1).  The Neon Shatter bag keeps *)
(* two shuffled lists at once and is explored for the shuffles of          *)
(* RandomSamples, as is reset().                                           *)
(***************************************************************************)
\* the random values of a shuffle, for every outcome of the shuffle
AllShuffleDraws ==
    LET n == Len(PIECE_TYPES)
        picks == {js \in [1..(n - 1) -> 0..(n - 1)] : \A k \in 1..(n - 1) : js[k] <= n - k}
    IN  {[k \in 1..(n - 1) |-> <<js[k], n - k + 1>>] : js \in picks}

\* every outcome of PieceBag.refillBag()
AllBags == {refillBag(rs) : rs \in AllShuffleDraws}

RECURSIVE SumOver(_, _)
SumOver(f, S) ==
    IF S = {} THEN 0
    ELSE LET x == CHOOSE y \in S : TRUE IN f[x] + SumOver(f, S \ {x})

\* number of draws of the current block
DrawsInBlock == SumOver(drawCount, DOMAIN drawCount)

\* history kept when getNext() returns the kind
Drawn(kind) ==
    /\ drawCount' = IF DrawsInBlock = Len(PIECE_TYPES)
                    THEN [NoDraws EXCEPT ![kind] = 1]
                    ELSE [drawCount EXCEPT ![kind] = @ + 1]
    /\ blocks' = IF DrawsInBlock = Len(PIECE_TYPES) - 1
                 THEN Min(blocks + 1, MaxBlocks) ELSE blocks
    /\ peekCount' = 0
    /\ IF Len(peekPending) > 0
       THEN /\ peekPending' = Tail(peekPending)
            /\ peekMatched' = (peekMatched /\ Head(peekPending) = kind)
       ELSE UNCHANGED <<peekPending, peekMatched>>

\* history kept by the constructor and by reset()
Undrawn ==
    /\ drawCount' = NoDraws
    /\ blocks' = 0
    /\ peekCount' = 0
    /\ peekPending' = <<>>
    /\ peekMatched' = TRUE

bagRest == <<boardVars, currentPiece, nextPiece, holdPiece, canHold, isRunning,
             isGameOver, spawnTimers, locks, scoreVars, controlVars>>

InitBag ==
    /\ app \in {"shatter", "edition"}
    /\ op = "new PieceBag"
    /\ grid = EmptyGrid(TOTAL_HEIGHT, WIDTH)
    /\ gridBefore = grid
    /\ clearedLines = <<>>
    /\ timers = <<>>
    /\ currentPiece = NoPiece
    /\ nextPiece = "none"
    /\ holdPiece = "none"
    /\ canHold = TRUE
    /\ isRunning = FALSE
    /\ isGameOver = FALSE
    /\ spawnTimers = 0
    /\ locks = 0
    /\ IF app = "edition"
       THEN /\ bag \in AllBags
            /\ nextBag = <<>>
       ELSE /\ bag = <<>>
            /\ nextBag \in SampledPieceBags
    /\ drawCount = NoDraws
    /\ blocks = 0
    /\ peekCount = 0
    /\ peekPending = <<>>
    /\ peekMatched = TRUE
    /\ ScoreIdle
    /\ ControlIdle

\* Neon Edition PieceBag.getNext()
EditionGetNext ==
    /\ app = "edition"
    /\ \E full \in BagsOfGetNext(bag, AllBags) :
           /\ bag' = PopRest(full)
           /\ Drawn(PopKind(full))
    /\ op' = "getNext"
    /\ UNCHANGED <<app, nextBag, bagRest>>

\* Neon Edition PieceBag.reset()
EditionReset ==
    /\ app = "edition"
    /\ bag' \in SampledBags
    /\ Undrawn
    /\ op' = "reset"
    /\ UNCHANGED <<app, nextBag, bagRest>>

\* Neon Shatter PieceBag.getNext()
ShatterGetNext ==
    /\ app = "shatter"
    /\ IF Len(bag) = 0
       THEN /\ bag' = Tail(nextBag)
            /\ nextBag' \in SampledPieceBags
            /\ Drawn(Head(nextBag))
       ELSE /\ bag' = Tail(bag)
            /\ UNCHANGED nextBag
            /\ Drawn(Head(bag))
    /\ op' = "getNext"
    /\ UNCHANGED <<app, bagRest>>

\* Neon Shatter PieceBag.peek(count)
ShatterPeek(count) ==
    /\ app = "shatter"
    /\ peekCount' = count
    /\ peekPending' = peek(bag, nextBag, count)
    /\ peekMatched' = TRUE
    /\ op' = "peek"
    /\ UNCHANGED <<app, bag, nextBag, drawCount, blocks, bagRest>>

\* Neon Shatter PieceBag.reset()
ShatterReset ==
    /\ app = "shatter"
    /\ bag' = <<>>
    /\ nextBag' \in SampledPieceBags
    /\ Undrawn
    /\ op' = "reset"
    /\ UNCHANGED <<app, bagRest>>

NextBag ==
    \/ EditionGetNext
    \/ EditionReset
    \/ ShatterGetNext
    \/ \E count \in 1..MaxPeek : ShatterPeek(count)
    \/ ShatterReset

SpecBag == InitBag /\ [][NextBag]_vars

\* C4: counting draws from construction or reset(), a block of 7 draws never
\* holds a kind twice, and a complete block holds each of the 7 kinds once.
C4_BagFairness ==
    /\ \A k \in DOMAIN drawCount : drawCount[k] <= 1
    /\ DrawsInBlock = Len(PIECE_TYPES) => \A k \in DOMAIN drawCount : drawCount[k] = 1

\* a second block of 7 draws is complete, after a refill of the bag
C4_Witness ==
    /\ op = "getNext"
    /\ blocks = MaxBlocks
    /\ DrawsInBlock = Len(PIECE_TYPES)

\* C5: peek(n) of the Neon Shatter bag returns n kinds, and the draws that
\* follow return those kinds in that order.
C5_PeekAnnouncesDraws ==
    /\ op = "peek" => Len(peekPending) = peekCount
    /\ peekMatched

(***************************************************************************)
(* Scores.  ScoreManager of Neon Shatter is a value [score, level, lines,  *)
(* targetLines, combo, backToBack] that its methods map to its next value; *)
(* GameLogic of Amber keeps score, level and linesCleared.                 *)
(***************************************************************************)
\* the fields of the ScoreManager in the current state
scoreManager ==
    [score |-> score, level |-> level, lines |-> linesCleared,
     targetLines |-> targetLines, combo |-> combo, backToBack |-> backToBack,
     highScores |-> highScores, isNewHighScore |-> isNewHighScore]

\* ScoreManager.reset(), also the state its constructor leaves in a browser
\* that has stored the high scores of sm
reset(sm) ==
    [score |-> 0, level |-> 1, lines |-> 0, targetLines |-> LINES_PER_LEVEL,
     combo |-> 0, backToBack |-> FALSE, highScores |-> sm.highScores,
     isNewHighScore |-> FALSE]

\* ScoreManager.getTopScore()
getTopScore(sm) == IF Len(sm.highScores) > 0 THEN sm.highScores[1] ELSE 0

\* ScoreManager.addScore(points)
addScore(sm, points) ==
    [sm EXCEPT !.score = @ + points,
               !.isNewHighScore = @ \/ sm.score + points > getTopScore(sm)]

\* this.highScores.sort((a, b) => b.score - a.score) of a sorted list with
\* the entry of score pushed at its end: the sort is stable, and the new
\* entry comes after the entries of its score
SortedWith(scores, entry) ==
    LET before == Cardinality({i \in 1..Len(scores) : scores[i] >= entry})
    IN  SubSeq(scores, 1, before) \o <<entry>> \o SubSeq(scores, before + 1, Len(scores))

\* ScoreManager.saveHighScore(name)
saveHighScore(sm) ==
    LET sorted == SortedWith(sm.highScores, sm.score)
    IN  [sm EXCEPT !.highScores = SubSeq(sorted, 1, IF Len(sorted) < 10 THEN Len(sorted) ELSE 10)]

\* ScoreManager.levelUp()
levelUp(sm) ==
    addScore([sm EXCEPT !.level = @ + 1, !.targetLines = @ + LINES_PER_LEVEL],
             1000 * (sm.level + 1))

RECURSIVE LevelUps(_)
\* while (this.lines >= this.targetLines) this.levelUp()
LevelUps(sm) == IF sm.lines >= sm.targetLines THEN LevelUps(levelUp(sm)) ELSE sm

\* an addLines that leaves the level alone
addLinesWithoutLevelUp(sm, numLines) == [sm EXCEPT !.lines = @ + numLines]

\* ScoreManager.addLines(numLines)
addLines(sm, numLines) == LevelUps([sm EXCEPT !.lines = @ + numLines])

\* ScoreManager.addSoftDropScore(cells)
addSoftDropScore(sm, cells) == addScore(sm, cells * SOFT_DROP)

\* ScoreManager.addHardDropScore(cells)
addHardDropScore(sm, cells) == addScore(sm, cells * HARD_DROP)

\* ScoreManager.addPerfectClearScore()
addPerfectClearScore(sm) == addScore(sm, PERFECT_CLEAR * sm.level)

\* Math.floor(x * m) for a factor m = <<numerator, denominator>>
FloorTimes(x, m) == (x * m[1]) \div m[2]

\* addLineClearScore: (SCORING.LINE_CLEAR[numLines] || 0) * this.level
levelScore(sm, numLines) ==
    (IF numLines \in DOMAIN LINE_CLEAR THEN LINE_CLEAR[numLines] ELSE 0) * sm.level

\* a line clear score without the back-to-back bonus
backToBackScoreUnscaled(sm, numLines) == levelScore(sm, numLines)

\* addLineClearScore: the back-to-back Tetris bonus
backToBackScore(sm, numLines) ==
    IF numLines = 4 /\ sm.backToBack
    THEN FloorTimes(levelScore(sm, numLines), BACK_TO_BACK_MULTIPLIER)
    ELSE levelScore(sm, numLines)

\* a combo bonus paid from the first clear of a combo on
comboBonusFromFirst(sm, numLines) ==
    IF numLines > 0 THEN COMBO_MULTIPLIER * (sm.combo + 1) * sm.level ELSE 0

\* addLineClearScore: the combo bonus, on the counter it has just incremented
comboBonus(sm, numLines) ==
    IF numLines > 0 /\ sm.combo + 1 > 1
    THEN COMBO_MULTIPLIER * (sm.combo + 1) * sm.level
    ELSE 0

\* addLineClearScore: the value it adds to the score and returns
baseScore(sm, numLines) == backToBackScore(sm, numLines) + comboBonus(sm, numLines)

\* ScoreManager.addLineClearScore(numLines)
addLineClearScore(sm, numLines) ==
    LET flagged == [sm EXCEPT
                       !.backToBack = IF numLines = 4 THEN TRUE
                                      ELSE IF numLines > 0 THEN FALSE ELSE @,
                       !.combo = IF numLines > 0 THEN @ + 1 ELSE 0]
    IN  addLines(addScore(flagged, baseScore(sm, numLines)), numLines)

\* an updateScore that assigns the points of the clear to the score
updateScoreAssigning(gl, linesCount) ==
    LET points == <<0, 100, 300, 500, 800>>
        total == gl.lines + linesCount
        newLevel == (total \div CONFIG_LINES_PER_LEVEL) + 1
    IN  [score |-> points[linesCount + 1] * gl.level,
         lines |-> total,
         level |-> IF newLevel > gl.level THEN newLevel ELSE gl.level]

\* Amber GameLogic.updateScore(linesCount) on [score, level, lines]
updateScore(gl, linesCount) ==
    LET points == <<0, 100, 300, 500, 800>>
        total == gl.lines + linesCount
        newLevel == (total \div CONFIG_LINES_PER_LEVEL) + 1
    IN  [score |-> gl.score + points[linesCount + 1] * gl.level,
         lines |-> total,
         level |-> IF newLevel > gl.level THEN newLevel ELSE gl.level]

\* a fall speed without its lower limit
updateFallSpeedUnlimited(l) ==
    INITIAL_FALL_SPEED - (l - 1) * SPEED_INCREASE_PER_LEVEL

\* Amber GameLogic.updateFallSpeed() at the level l
updateFallSpeed(l) ==
    Max(MIN_FALL_SPEED, INITIAL_FALL_SPEED - (l - 1) * SPEED_INCREASE_PER_LEVEL)

(***************************************************************************)
(* Specification of the scores.  The board is not part of it: what a lock  *)
(* does to the grid reaches the score keeper as the number of completed    *)
(* rows, as Board.isPerfectClear() and as Board.checkGameOver(), which are *)
(* inputs of the lock here, and the fall of a piece as a number of cells.  *)
(* isGameOver stands for state === GAME_STATE.GAME_OVER in Neon Shatter.   *)
(***************************************************************************)
scoreRest == <<boardVars, currentPiece, nextPiece, holdPiece, canHold, bag,
               spawnTimers, bagVars, pieceVars, enabled, heldAt, appVars, timeVars>>

InitScore ==
    /\ app \in {"shatter", "amber"}
    /\ op = "new Game"
    /\ grid = EmptyGrid(GridHeight(app), GridWidth(app))
    /\ gridBefore = grid
    /\ clearedLines = <<>>
    /\ timers = <<>>
    /\ currentPiece = NoPiece
    /\ nextPiece = "none"
    /\ holdPiece = "none"
    /\ canHold = TRUE
    /\ bag = <<>>
    /\ isRunning = (app = "amber")
    /\ isGameOver = FALSE
    /\ spawnTimers = 0
    /\ locks = 0
    /\ BagIdle
    /\ ScoreIdle
    /\ ControlIdle

\* the fields of the ScoreManager become those of sm
SetScoreManager(sm) ==
    /\ score' = sm.score
    /\ level' = sm.level
    /\ linesCleared' = sm.lines
    /\ targetLines' = sm.targetLines
    /\ combo' = sm.combo
    /\ backToBack' = sm.backToBack
    /\ highScores' = sm.highScores
    /\ isNewHighScore' = sm.isNewHighScore

\* Neon Shatter Game.start(): reset() and the countdown into PLAYING
ShatterStart ==
    /\ app = "shatter"
    /\ ~isRunning
    /\ op' = "start"
    /\ SetScoreManager(reset(scoreManager))
    /\ statisticsCombo' = 0
    /\ distanceFallen' = 0
    /\ lastClear' = NoClear
    /\ tetrisStreak' = 0
    /\ softCells' = 0
    /\ isRunning' = TRUE
    /\ UNCHANGED <<app, isGameOver, locks, scoreRest, amberVars>>

\* Neon Shatter Piece.update() moves the piece down by moveDown(isSoftDrop),
\* one free cell below it
ShatterMoveDown ==
    /\ app = "shatter"
    /\ isRunning /\ ~isGameOver
    /\ locks < MaxPieces
    /\ distanceFallen < MaxFall
    /\ op' = "moveDown"
    /\ distanceFallen' = distanceFallen + 1
    /\ \E isSoftDrop \in BOOLEAN :
          softCells' = IF isSoftDrop THEN softCells + 1 ELSE softCells
    /\ UNCHANGED <<app, isRunning, isGameOver, locks, scoreRest, amberVars, score, level,
                   linesCleared, targetLines, combo, backToBack, statisticsCombo,
                   lastClear, tetrisStreak, highScores, isNewHighScore>>

\* Neon Shatter Game.handlePieceLock() from the ScoreManager sm, for a piece
\* that fell fallen cells: Board.placePiece with the 'linesCleared' and
\* 'perfectClear' listeners of the game, then the soft drop score
handlePieceLock(sm, fallen, numLines, perfect, over) ==
    LET placed == IF numLines > 0 THEN addLineClearScore(sm, numLines)
                  ELSE IF perfect THEN addPerfectClearScore(sm)
                  ELSE sm
        cleared == IF numLines > 0 THEN addLineClearScore(sm, numLines) ELSE sm
    IN  /\ locks < MaxPieces
        /\ locks' = locks + 1
        /\ statisticsCombo' = IF numLines > 0 THEN statisticsCombo + 1 ELSE 0
        /\ SetScoreManager(IF fallen > 0 THEN addSoftDropScore(placed, fallen)
                           ELSE placed)
        /\ lastClear' = [numLines |-> numLines, level |-> sm.level,
                         combo |-> sm.combo,
                         award |-> IF numLines > 0 THEN baseScore(sm, numLines) ELSE 0,
                         delta |-> cleared.score - sm.score,
                         perfect |-> perfect]
        /\ tetrisStreak' = IF numLines = 4 THEN tetrisStreak + 1 ELSE 0
        /\ distanceFallen' = 0
        /\ softCells' = 0
        /\ isGameOver' = over
        /\ UNCHANGED <<app, isRunning, scoreRest, amberVars>>

\* Neon Shatter Game.updatePlaying() finds the piece locked, which it is once
\* it rests and the lock delay has run out
ShatterPieceLock ==
    /\ app = "shatter"
    /\ isRunning /\ ~isGameOver
    /\ distanceFallen = MaxFall
    /\ op' = "handlePieceLock"
    /\ \E numLines \in 0..4, perfect, over \in BOOLEAN :
          /\ perfect => numLines = 0
          /\ handlePieceLock(scoreManager, distanceFallen, numLines, perfect, over)

\* the cells that are still free below the current piece
freeBelow == MaxFall - distanceFallen

\* Neon Shatter: the HARD_DROP handler of the game; Piece.hardDrop() moves the
\* piece down the cells that are still free below it and returns their number
ShatterHardDrop ==
    /\ app = "shatter"
    /\ isRunning /\ ~isGameOver
    /\ op' = "hardDrop"
    /\ \E numLines \in 0..4, perfect, over \in BOOLEAN :
          LET distance == freeBelow
          IN  /\ perfect => numLines = 0
              /\ handlePieceLock(addHardDropScore(scoreManager, distance),
                                 distanceFallen + distance, numLines, perfect, over)

\* Neon Shatter: the RESTART handler of the game; restart() resets, and its
\* start() returns at once as isRunning is still set
ShatterRestart ==
    /\ app = "shatter"
    /\ isGameOver
    /\ op' = "restart"
    /\ SetScoreManager(reset(scoreManager))
    /\ statisticsCombo' = 0
    /\ distanceFallen' = 0
    /\ lastClear' = NoClear
    /\ tetrisStreak' = 0
    /\ softCells' = 0
    /\ UNCHANGED <<app, isRunning, isGameOver, locks, scoreRest, amberVars>>

\* Amber GameLogic.lockPiece(), the piece completing numLines rows
AmberLockPiece ==
    /\ app = "amber"
    /\ ~isGameOver
    /\ locks < MaxPieces
    /\ op' = "lockPiece"
    /\ locks' = locks + 1
    /\ \E numLines \in 0..4, over \in BOOLEAN :
          LET gl == [score |-> score, level |-> level, lines |-> linesCleared]
              after == IF numLines > 0 THEN updateScore(gl, numLines) ELSE gl
          IN  /\ score' = after.score
              /\ level' = after.level
              /\ linesCleared' = after.lines
              /\ fallSpeed' = IF after.level > level THEN updateFallSpeed(after.level)
                              ELSE fallSpeed
              /\ lastClear' = [numLines |-> numLines, level |-> level, combo |-> 0,
                               award |-> after.score - score,
                               delta |-> after.score - score,
                               perfect |-> FALSE]
              /\ tetrisStreak' = IF numLines = 4 THEN tetrisStreak + 1 ELSE 0
              /\ isGameOver' = over
    /\ UNCHANGED <<app, isRunning, scoreRest, targetLines, combo, backToBack,
                   statisticsCombo, distanceFallen, softCells, highScores, isNewHighScore>>

NextScore ==
    \/ ShatterStart
    \/ ShatterMoveDown
    \/ ShatterPieceLock
    \/ ShatterHardDrop
    \/ ShatterRestart
    \/ AmberLockPiece

SpecScore == InitScore /\ [][NextScore]_vars

\* the last step locked a piece in Neon Shatter
ShatterLocked == app = "shatter" /\ op \in {"handlePieceLock", "hardDrop"}

\* C6: between two resets no step of the game lowers the score, the number of
\* cleared lines or the level, in the ScoreManager of Neon Shatter and in the
\* GameLogic of Amber alike.
C6_ScoreMonotonic ==
    [][op' \notin {"start", "restart"} =>
          /\ score' >= score
          /\ linesCleared' >= linesCleared
          /\ level' >= level]_vars

\* a hard drop that cleared rows and reached a higher level
C6_Witness ==
    /\ app = "shatter"
    /\ op = "hardDrop"
    /\ lastClear.numLines > 0
    /\ level > lastClear.level
    /\ score > 0

\* C7: the level is floor(lines / 10) + 1 in every state; in the ScoreManager
\* the next threshold targetLines is 10 * level and lies above lines.
C7_LevelFormula ==
    /\ app = "shatter" =>
          /\ level = (linesCleared \div 10) + 1
          /\ targetLines = 10 * level
          /\ linesCleared < targetLines
    /\ app = "amber" => level = (linesCleared \div 10) + 1

\* the ScoreManager has passed the first threshold
C7_Witness ==
    /\ ShatterLocked
    /\ linesCleared >= LINES_PER_LEVEL
    /\ level = 2

\* C8: a clear of one row with no combo running (combo 0 before the call of
\* addLineClearScore) raises the score of the ScoreManager by 100 * level, the
\* level being that before the call.
C8_SingleClearAward ==
    (ShatterLocked /\ lastClear.numLines = 1 /\ lastClear.combo = 0) =>
        lastClear.delta = 100 * lastClear.level

\* a piece has cleared one row with no combo running
C8_Witness ==
    /\ ShatterLocked
    /\ lastClear.numLines = 1
    /\ lastClear.combo = 0
    /\ linesCleared = 1

\* C9, as claimed: the fourth of four Tetris clears in a row is awarded
\* floor(800 * level * 1.5), the level being that before the clear.
C9_FourthTetrisAward ==
    (ShatterLocked /\ tetrisStreak = 4) =>
        lastClear.award = FloorTimes(800 * lastClear.level, <<3, 2>>)

\* C9, amended: the award of the fourth Tetris clear in a row is
\* floor(800 * level * 1.5) plus the combo bonus 50 * combo * level on the
\* combo counter after the clear, which is 4 at least.
C9_FourthTetrisAwardWithCombo ==
    (ShatterLocked /\ tetrisStreak = 4) =>
        /\ combo >= 4
        /\ lastClear.award = FloorTimes(800 * lastClear.level, <<3, 2>>)
                                + 50 * combo * lastClear.level

\* four pieces in a row have cleared 4 rows each
C9_Witness ==
    /\ ShatterLocked
    /\ tetrisStreak = 4
    /\ lastClear.numLines = 4

\* C10: after a piece locked without completing a row, ScoreManager.combo is 0.
C10_ComboResetOnPlainLock ==
    (ShatterLocked /\ lastClear.numLines = 0) => combo = 0

\* C11: a piece of Neon Shatter that locks without clearing a row has gained
\* 1 point per cell it descended by soft drop and 2 points per cell of its
\* hard drop, and nothing for the cells it descended by gravity.
C11_DropScore ==
    [][(app = "shatter" /\ op' \in {"handlePieceLock", "hardDrop"}
            /\ lastClear'.numLines = 0 /\ ~lastClear'.perfect) =>
          score' - score = SOFT_DROP * softCells
                            + HARD_DROP * (IF op' = "hardDrop" THEN freeBelow ELSE 0)]_vars

(***************************************************************************)
(* The Neon Shatter piece                                                  *)
(*                                                                         *)
(* A piece is the record [type, row, col, rotation]; its shape is the      *)
(* matrix of its kind turned clockwise rotation times.  The flags of the   *)
(* Piece object are fields of the game record below.                       *)
(***************************************************************************)
MAX_LOCK_MOVES == 15

\* PIECES[type].shape of Neon Shatter
SHAPES ==
    [I |-> << <<0, 0, 0, 0>>, <<1, 1, 1, 1>>, <<0, 0, 0, 0>>, <<0, 0, 0, 0>> >>,
     O |-> << <<1, 1>>, <<1, 1>> >>,
     T |-> << <<0, 1, 0>>, <<1, 1, 1>>, <<0, 0, 0>> >>,
     S |-> << <<0, 1, 1>>, <<1, 1, 0>>, <<0, 0, 0>> >>,
     Z |-> << <<1, 1, 0>>, <<0, 1, 1>>, <<0, 0, 0>> >>,
     J |-> << <<1, 0, 0>>, <<1, 1, 1>>, <<0, 0, 0>> >>,
     L |-> << <<0, 0, 1>>, <<1, 1, 1>>, <<0, 0, 0>> >>]

\* Helpers.rotateMatrixCW(matrix): rotated[j][n - 1 - i] = matrix[i][j]
rotateMatrixCW(matrix) ==
    LET n == Len(matrix)
    IN  [a \in 1..n |-> [b \in 1..n |-> matrix[n + 1 - b][a]]]

\* Helpers.rotateMatrixCCW(matrix): rotated[n - 1 - j][i] = matrix[i][j]
rotateMatrixCCW(matrix) ==
    LET n == Len(matrix)
    IN  [a \in 1..n |-> [b \in 1..n |-> matrix[b][n + 1 - a]]]

RECURSIVE TurnedCW(_, _)
TurnedCW(matrix, times) ==
    IF times = 0 THEN matrix ELSE rotateMatrixCW(TurnedCW(matrix, times - 1))

\* Piece.shape by kind and rotation
ShapeTable == [t \in DOMAIN SHAPES |-> [r \in 0..3 |-> TurnedCW(SHAPES[t], r)]]

\* Piece.shape
shapeOf(piece) == ShapeTable[piece.type][piece.rotation]

\* Helpers.isInBounds(row, col)
isInBounds(row, col) == row >= 0 /\ row < TOTAL_HEIGHT /\ col >= 0 /\ col < WIDTH

\* Helpers.isValidPosition(board, piece, row, col)
Helpers_isValidPosition(board, shape, row, col) ==
    \A r \in 1..Len(shape) : \A c \in 1..Len(shape[r]) :
        shape[r][c] = 1 =>
            /\ isInBounds(row + r - 1, col + c - 1)
            /\ board[row + r][col + c] = NoBlock

\* Helpers.getPieceBounds(shape).width
boundsWidth(shape) ==
    LET cols == {c \in 1..Len(shape[1]) : \E r \in 1..Len(shape) : shape[r][c] = 1}
        minCol == CHOOSE c \in cols : \A d \in cols : c <= d
        maxCol == CHOOSE c \in cols : \A d \in cols : c >= d
    IN  maxCol - minCol + 1

\* new Piece(type, board): the spawn placement, centred by centerPiece()
newPiece(type) ==
    [type |-> type, row |-> SPAWN_ROW,
     col |-> (WIDTH - boundsWidth(SHAPES[type])) \div 2, rotation |-> 0]

\* Helpers.getWallKickOffsets(piece, fromRotation, toRotation): the offsets
\* [offsetCol, offsetRow]
standardKicks ==
    [from \in 0..3 |-> [to \in 0..3 |->
        CASE from = 0 /\ to = 1 -> << <<0, 0>>, <<-1, 0>>, <<-1, 1>>, <<0, -2>>, <<-1, -2>> >>
          [] from = 1 /\ to = 0 -> << <<0, 0>>, <<1, 0>>, <<1, -1>>, <<0, 2>>, <<1, 2>> >>
          [] from = 1 /\ to = 2 -> << <<0, 0>>, <<1, 0>>, <<1, -1>>, <<0, 2>>, <<1, 2>> >>
          [] from = 2 /\ to = 1 -> << <<0, 0>>, <<-1, 0>>, <<-1, 1>>, <<0, -2>>, <<-1, -2>> >>
          [] from = 2 /\ to = 3 -> << <<0, 0>>, <<1, 0>>, <<1, 1>>, <<0, -2>>, <<1, -2>> >>
          [] from = 3 /\ to = 2 -> << <<0, 0>>, <<-1, 0>>, <<-1, -1>>, <<0, 2>>, <<-1, 2>> >>
          [] from = 3 /\ to = 0 -> << <<0, 0>>, <<-1, 0>>, <<-1, -1>>, <<0, 2>>, <<-1, 2>> >>
          [] from = 0 /\ to = 3 -> << <<0, 0>>, <<1, 0>>, <<1, 1>>, <<0, -2>>, <<1, -2>> >>
          [] OTHER -> << <<0, 0>> >>]]

iPieceKicks ==
    [from \in 0..3 |-> [to \in 0..3 |->
        CASE from = 0 /\ to = 1 -> << <<0, 0>>, <<-2, 0>>, <<1, 0>>, <<-2, -1>>, <<1, 2>> >>
          [] from = 1 /\ to = 0 -> << <<0, 0>>, <<2, 0>>, <<-1, 0>>, <<2, 1>>, <<-1, -2>> >>
          [] from = 1 /\ to = 2 -> << <<0, 0>>, <<-1, 0>>, <<2, 0>>, <<-1, 2>>, <<2, -1>> >>
          [] from = 2 /\ to = 1 -> << <<0, 0>>, <<1, 0>>, <<-2, 0>>, <<1, -2>>, <<-2, 1>> >>
          [] from = 2 /\ to = 3 -> << <<0, 0>>, <<2, 0>>, <<-1, 0>>, <<2, 1>>, <<-1, -2>> >>
          [] from = 3 /\ to = 2 -> << <<0, 0>>, <<-2, 0>>, <<1, 0>>, <<-2, -1>>, <<1, 2>> >>
          [] from = 3 /\ to = 0 -> << <<0, 0>>, <<1, 0>>, <<-2, 0>>, <<1, -2>>, <<-2, 1>> >>
          [] from = 0 /\ to = 3 -> << <<0, 0>>, <<-1, 0>>, <<2, 0>>, <<-1, 2>>, <<2, -1>> >>
          [] OTHER -> << <<0, 0>> >>]]

\* the offsets when the I piece is not told from the other kinds
getWallKickOffsetsStandardOnly(type, fromRotation, toRotation) ==
    standardKicks[fromRotation][toRotation]

getWallKickOffsets(type, fromRotation, toRotation) ==
    IF type = "I" THEN iPieceKicks[fromRotation][toRotation]
    ELSE standardKicks[fromRotation][toRotation]

\* Piece.placeOnBoard(): the board with the cells of the piece that lie in
\* the grid set to its kind
placeOnBoard(board, piece) ==
    LET shape == shapeOf(piece)
        covered(y, x) ==
            /\ y - piece.row \in 1..Len(shape)
            /\ x - piece.col \in 1..Len(shape)
            /\ shape[y - piece.row][x - piece.col] = 1
    IN  [y \in 1..Len(board) |-> [x \in 1..Len(board[y]) |->
            IF covered(y, x) THEN piece.type ELSE board[y][x]]]

\* Piece.calculateGhostPosition(): the lowest row the piece can fall to
RECURSIVE GhostRowFrom(_, _, _, _)
GhostRowFrom(board, shape, ghost, col) ==
    IF Helpers_isValidPosition(board, shape, ghost + 1, col)
    THEN GhostRowFrom(board, shape, ghost + 1, col)
    ELSE ghost

calculateGhostPosition(board, piece) ==
    GhostRowFrom(board, shapeOf(piece), piece.row, piece.col)

(***************************************************************************)
(* The Neon Shatter game as a record                                       *)
(*                                                                         *)
(* The methods of Piece, Board and Game call one another; each is an       *)
(* operator from the record of the fields before the call to that after    *)
(* it.  The timers of the source (drop timer, lock delay, countdown, line  *)
(* clear, level transition) are not kept: an update is told whether the    *)
(* timer it looks at has run out (due).  A new bag of the PieceBag is the  *)
(* argument fresh.                                                         *)
(***************************************************************************)
\* the fields of the game, its board, its input handler and its piece
game ==
    [state |-> state, enabled |-> enabled, isRunning |-> isRunning,
     grid |-> grid, isClearing |-> isClearing, linesToClear |-> linesToClear,
     statisticsCombo |-> statisticsCombo,
     piece |-> currentPiece, locked |-> locked, isInLockDelay |-> isInLockDelay,
     lockDelayMoves |-> lockDelayMoves, softDropping |-> softDropping,
     distanceFallen |-> distanceFallen,
     heldPiece |-> holdPiece, canHold |-> canHold, nextPieces |-> nextPieces,
     bag |-> bag, nextBag |-> nextBag, sm |-> scoreManager,
     over |-> isGameOver, locks |-> locks, spawn |-> NoSpawn, heldAt |-> heldAt,
     groundedMoves |-> groundedMoves, ghostRow |-> ghostRow]

\* ---- Piece ----

\* Piece.lock()
Piece_lock(g) == [g EXCEPT !.locked = TRUE, !.grid = placeOnBoard(g.grid, g.piece)]

\* an update of the ghost row that leaves it as it was
updateGhostPositionStale(g) == g

\* Piece.updateGhostPosition()
updateGhostPosition(g) == [g EXCEPT !.ghostRow = calculateGhostPosition(g.grid, g.piece)]

\* Piece.enterLockDelay()
Piece_enterLockDelay(g) == [g EXCEPT !.isInLockDelay = TRUE, !.lockDelayMoves = 0]

\* Piece.exitLockDelay()
Piece_exitLockDelay(g) == [g EXCEPT !.isInLockDelay = FALSE]

\* Piece.resetLockDelay()
Piece_resetLockDelay(g) ==
    LET counted == [g EXCEPT !.lockDelayMoves = @ + 1]
    IN  IF counted.lockDelayMoves >= MAX_LOCK_MOVES THEN Piece_lock(counted) ELSE counted

\* Piece.moveLeft() and Piece.moveRight(), to the column newCol
Piece_moveTo(g, newCol) ==
    IF g.locked THEN g
    ELSE IF Helpers_isValidPosition(g.grid, shapeOf(g.piece), g.piece.row, newCol)
    THEN LET moved == [g EXCEPT !.piece.col = newCol]
         IN  updateGhostPosition(IF g.isInLockDelay THEN Piece_resetLockDelay(moved)
                                 ELSE moved)
    ELSE g

Piece_moveLeft(g) == Piece_moveTo(g, g.piece.col - 1)

Piece_moveRight(g) == Piece_moveTo(g, g.piece.col + 1)

\* Piece.moveDown(isSoftDrop); it returns true when the row has changed
Piece_moveDown(g, isSoftDrop) ==
    IF g.locked THEN g
    ELSE IF Helpers_isValidPosition(g.grid, shapeOf(g.piece), g.piece.row + 1, g.piece.col)
    THEN LET moved == [g EXCEPT !.piece.row = @ + 1, !.distanceFallen = @ + 1,
                                !.softDropping = isSoftDrop]
         IN  IF g.isInLockDelay THEN Piece_exitLockDelay(moved) ELSE moved
    ELSE IF ~g.isInLockDelay THEN Piece_enterLockDelay(g) ELSE g

\* the loop of Piece.hardDrop(): moveDown(false) until it returns false
RECURSIVE MovedDownAll(_)
MovedDownAll(g) ==
    LET moved == Piece_moveDown(g, FALSE)
    IN  IF moved.piece.row # g.piece.row THEN MovedDownAll(moved) ELSE moved

\* a hard drop that locks the piece where it is
Piece_hardDropInPlace(g) == IF g.locked THEN g ELSE Piece_lock(g)

\* Piece.hardDrop(); it returns the number of rows the piece has moved
Piece_hardDrop(g) == IF g.locked THEN g ELSE Piece_lock(MovedDownAll(g))

\* Piece.rotateCW() and Piece.rotateCCW() with tryRotationWithKicks()
Piece_rotate(g, rotatedShape, newRotation) ==
    LET offsets == getWallKickOffsets(g.piece.type, g.piece.rotation, newRotation)
        fits == {i \in 1..Len(offsets) :
                    Helpers_isValidPosition(g.grid, rotatedShape,
                                            g.piece.row + offsets[i][2],
                                            g.piece.col + offsets[i][1])}
        first == CHOOSE i \in fits : \A k \in fits : i <= k
        turned == [g EXCEPT !.piece = [type |-> g.piece.type,
                                       row |-> g.piece.row + offsets[first][2],
                                       col |-> g.piece.col + offsets[first][1],
                                       rotation |-> newRotation]]
    IN  IF g.locked \/ g.piece.type = "O" \/ fits = {} THEN g
        ELSE updateGhostPosition(IF g.isInLockDelay THEN Piece_resetLockDelay(turned)
                                 ELSE turned)

Piece_rotateCW(g) ==
    Piece_rotate(g, rotateMatrixCW(shapeOf(g.piece)), (g.piece.rotation + 1) % 4)

Piece_rotateCCW(g) ==
    Piece_rotate(g, rotateMatrixCCW(shapeOf(g.piece)), (g.piece.rotation - 1 + 4) % 4)

\* Piece.update(deltaTime, gravity); due: the lock delay has run out when the
\* piece is in lock delay, the drop interval has passed when it is not
Piece_update(g, due) ==
    IF g.locked \/ ~due THEN g
    ELSE IF g.isInLockDelay THEN Piece_lock(g)
    ELSE Piece_moveDown(g, g.softDropping)

\* ---- Board ----

\* what Board.placePiece() and Board.checkGameOver() find for the piece of g.
\* For the oracle geometric they are computed from the grid; any other
\* oracle tells them, and the grid is left as it is.
PlacedGrid(g, oracle) ==
    IF oracle.geometric THEN placeOnBoard(g.grid, g.piece) ELSE g.grid

PlacedLines(g, oracle) ==
    IF oracle.geometric THEN findCompletedLines(PlacedGrid(g, oracle)) ELSE oracle.lines

\* Board.isPerfectClear()
isPerfectClear(g, oracle) ==
    IF oracle.geometric THEN PlacedGrid(g, oracle) = EmptyGrid(TOTAL_HEIGHT, WIDTH)
    ELSE oracle.perfect

\* Board.checkGameOver(testPiece), Helpers.isGameOver: the test at SPAWN_COL
checkGameOver(g, oracle) ==
    IF oracle.geometric
    THEN ~Helpers_isValidPosition(g.grid, SHAPES[Head(g.nextPieces)], SPAWN_ROW, SPAWN_COL)
    ELSE oracle.over

Geometric == [geometric |-> TRUE, lines |-> <<>>, perfect |-> FALSE, over |-> FALSE]

\* the listener of GAME_EVENTS.LEVEL_UP of the game, run for the level-ups
\* between the ScoreManager before and after
onLevelUp(g, before) ==
    IF g.sm.level > before.level THEN [g EXCEPT !.state = "LEVEL_TRANSITION"] ELSE g

\* Board.startLineClear(lines) with the 'linesCleared' listener of the game
Board_startLineClear(g, lines) ==
    onLevelUp([g EXCEPT !.isClearing = TRUE, !.linesToClear = lines,
                        !.statisticsCombo = @ + 1,
                        !.sm = addLineClearScore(g.sm, Len(lines))], g.sm)

\* Board.placePiece(piece) with the 'perfectClear' listener of the game
Board_placePiece(g, oracle) ==
    LET placed == [g EXCEPT !.grid = PlacedGrid(g, oracle)]
    IN  IF Len(PlacedLines(g, oracle)) > 0
        THEN Board_startLineClear(placed, PlacedLines(g, oracle))
        ELSE [placed EXCEPT !.statisticsCombo = 0,
                            !.sm = IF isPerfectClear(g, oracle)
                                   THEN addPerfectClearScore(g.sm) ELSE g.sm]

\* Board.completeLineClear()
Board_completeLineClear(g) ==
    [g EXCEPT !.grid = clearLines(g.grid, g.linesToClear), !.isClearing = FALSE,
              !.linesToClear = <<>>]

\* Board.updateLineClear(deltaTime); due: LINE_CLEAR_DELAY has passed
Board_updateLineClear(g, due) ==
    IF g.isClearing /\ due THEN Board_completeLineClear(g) ELSE g

\* Board.reset()
Board_reset(g) ==
    [g EXCEPT !.grid = EmptyGrid(TOTAL_HEIGHT, WIDTH), !.isClearing = FALSE,
              !.linesToClear = <<>>, !.statisticsCombo = 0]

\* ---- Game ----

\* no piece: the flags of the piece are those of a new one.  The constructor
\* of Piece computes the ghost row at SPAWN_COL, before centerPiece().
WithPiece(g, piece) ==
    [g EXCEPT !.piece = piece, !.locked = FALSE, !.isInLockDelay = FALSE,
              !.lockDelayMoves = 0, !.softDropping = FALSE, !.distanceFallen = 0,
              !.groundedMoves = 0,
              !.ghostRow = IF piece = NoPiece THEN 0
                           ELSE GhostRowFrom(g.grid, SHAPES[piece.type], SPAWN_ROW,
                                             SPAWN_COL)]

\* Game.refillNextPieces() with PieceBag.getNext()
RECURSIVE Game_refillNextPieces(_, _)
Game_refillNextPieces(g, fresh) ==
    IF Len(g.nextPieces) >= 5 THEN g
    ELSE LET filled == IF Len(g.bag) = 0
                       THEN [g EXCEPT !.bag = g.nextBag, !.nextBag = fresh] ELSE g
         IN  Game_refillNextPieces([filled EXCEPT !.nextPieces = Append(@, Head(filled.bag)),
                                                  !.bag = Tail(@)], fresh)

\* Game.gameOver()
Game_gameOver(g) == [g EXCEPT !.state = "GAME_OVER", !.enabled = FALSE, !.over = TRUE]

\* Game.spawnNextPiece(); the field spawn records the call: whether the
\* placement of the new piece is valid, whether PIECE_SPAWN is emitted, the
\* state, Board.isClearing and the number of complete rows at its return
Game_spawnNextPiece(g, fresh) ==
    LET piece == newPiece(Head(g.nextPieces))
        drawn == Game_refillNextPieces([g EXCEPT !.nextPieces = Tail(@)], fresh)
        spawned == WithPiece(drawn, piece)
        failed == calculateGhostPosition(g.grid, piece) = 0
        after == IF failed THEN Game_gameOver(spawned) ELSE spawned
    IN  [after EXCEPT !.spawn =
            [type |-> piece.type,
             overlaps |-> ~Helpers_isValidPosition(g.grid, shapeOf(piece),
                                                   piece.row, piece.col),
             emitted |-> ~failed,
             state |-> after.state,
             isClearing |-> g.isClearing,
             completed |-> Len(findCompletedLines(g.grid))]]

\* Game.handlePieceLock()
Game_handlePieceLock(g, oracle, fresh) ==
    LET placed == Board_placePiece(g, oracle)
        scored == IF g.distanceFallen > 0
                  THEN [placed EXCEPT !.sm = addSoftDropScore(@, g.distanceFallen)]
                  ELSE placed
        cleared == [WithPiece(scored, NoPiece) EXCEPT !.canHold = TRUE, !.locks = @ + 1]
    IN  IF checkGameOver(cleared, oracle) THEN Game_gameOver(cleared)
        ELSE IF ~cleared.isClearing THEN Game_spawnNextPiece(cleared, fresh)
        ELSE cleared

\* Game.holdPiece()
Game_holdPiece(g, fresh) ==
    IF g.piece = NoPiece \/ ~g.canHold THEN g
    ELSE LET held == [g EXCEPT !.heldPiece = g.piece.type]
             swapped == IF g.heldPiece = "none"
                        THEN Game_spawnNextPiece(held, fresh)
                        ELSE WithPiece(held, newPiece(g.heldPiece))
         IN  [swapped EXCEPT !.canHold = FALSE, !.heldAt = g.locks]

\* Game.reset() with Board.reset(), ScoreManager.reset() and PieceBag.reset()
Game_reset(g, fresh, refill) ==
    LET emptied == [WithPiece(Board_reset(g), NoPiece) EXCEPT
                        !.sm = reset(g.sm), !.bag = <<>>, !.nextBag = fresh,
                        !.heldPiece = "none", !.nextPieces = <<>>,
                        !.canHold = TRUE, !.over = FALSE, !.locks = 0, !.heldAt = -1]
    IN  Game_refillNextPieces(emptied, refill)

\* Game.start()
Game_start(g, fresh, refill) ==
    IF g.isRunning THEN g
    ELSE [Game_reset(g, fresh, refill) EXCEPT !.state = "COUNTDOWN", !.isRunning = TRUE]

\* Game.restart()
Game_restart(g, fresh, refill) ==
    Game_start(Game_reset(g, fresh, refill), fresh, refill)

\* Game.pause()
Game_pause(g) == IF g.state # "PLAYING" THEN g ELSE [g EXCEPT !.state = "PAUSED"]

\* Game.resume(); previousState is PLAYING whenever the state is PAUSED
Game_resume(g) == IF g.state # "PAUSED" THEN g ELSE [g EXCEPT !.state = "PLAYING"]

\* Game.togglePause()
Game_togglePause(g) ==
    IF g.state = "PLAYING" THEN Game_pause(g)
    ELSE IF g.state = "PAUSED" THEN Game_resume(g)
    ELSE g

\* Game.updateCountdown(deltaTime); due: the countdown has run out
Game_updateCountdown(g, due, fresh) ==
    IF ~due THEN g
    ELSE [Game_spawnNextPiece([g EXCEPT !.state = "PLAYING"], fresh) EXCEPT !.enabled = TRUE]

\* Game.updatePlaying(deltaTime)
Game_updatePlaying(g, due, oracle, fresh) ==
    IF g.piece = NoPiece THEN Game_spawnNextPiece(g, fresh)
    ELSE LET updated == Piece_update(g, due)
             handled == IF updated.locked THEN Game_handlePieceLock(updated, oracle, fresh)
                        ELSE updated
         IN  IF handled.isClearing THEN [handled EXCEPT !.state = "LINE_CLEAR"]
             ELSE handled

\* Game.updateLineClear(deltaTime)
Game_updateLineClear(g, due, fresh) ==
    LET updated == Board_updateLineClear(g, due)
    IN  IF ~updated.isClearing
        THEN Game_spawnNextPiece([updated EXCEPT !.state = "PLAYING"], fresh)
        ELSE updated

\* Game.updateLevelTransition(deltaTime); due: 2000 ms have passed
Game_updateLevelTransition(g, due) ==
    IF due THEN [g EXCEPT !.state = "PLAYING"] ELSE g

\* Game.updateGameOver(deltaTime); due: gameOverTimer has reached
\* GAME_OVER_DELAY
Game_updateGameOver(g, due) ==
    IF due /\ g.sm.isNewHighScore THEN [g EXCEPT !.sm = saveHighScore(@)] ELSE g

\* a fixed update that goes on playing while the game is paused
Game_fixedUpdateWhilePaused(g, due, oracle, fresh) ==
    CASE g.state = "COUNTDOWN" -> Game_updateCountdown(g, due, fresh)
      [] g.state \in {"PLAYING", "PAUSED"} -> Game_updatePlaying(g, due, oracle, fresh)
      [] g.state = "LINE_CLEAR" -> Game_updateLineClear(g, due, fresh)
      [] g.state = "LEVEL_TRANSITION" -> Game_updateLevelTransition(g, due)
      [] g.state = "GAME_OVER" -> Game_updateGameOver(g, due)
      [] OTHER -> g

\* Game.fixedUpdate(deltaTime)
Game_fixedUpdate(g, due, oracle, fresh) ==
    CASE g.state = "COUNTDOWN" -> Game_updateCountdown(g, due, fresh)
      [] g.state = "PLAYING" -> Game_updatePlaying(g, due, oracle, fresh)
      [] g.state = "LINE_CLEAR" -> Game_updateLineClear(g, due, fresh)
      [] g.state = "LEVEL_TRANSITION" -> Game_updateLevelTransition(g, due)
      [] g.state = "GAME_OVER" -> Game_updateGameOver(g, due)
      [] OTHER -> g

\* the actions of Game.setupInput()
GameActions == {"MOVE_LEFT", "MOVE_RIGHT", "ROTATE_CW", "ROTATE_CCW", "SOFT_DROP",
            "HARD_DROP", "HOLD", "PAUSE", "RESTART"}

\* the handler of the HARD_DROP action for a key that has just gone down
onHardDrop(g, oracle, fresh) ==
    IF g.state = "PLAYING" /\ g.piece # NoPiece
    THEN LET dropped == Piece_hardDrop(g)
             distance == dropped.piece.row - g.piece.row
         IN  Game_handlePieceLock([dropped EXCEPT !.sm = addHardDropScore(@, distance)],
                                  oracle, fresh)
    ELSE g

\* the handlers with a HOLD handler that does not look at the state
onActionHoldingAnywhere(g, action, oracle, fresh, refill) ==
    LET playing == g.state = "PLAYING" /\ g.piece # NoPiece
    IN  CASE action = "MOVE_LEFT" -> IF playing THEN Piece_moveLeft(g) ELSE g
          [] action = "MOVE_RIGHT" -> IF playing THEN Piece_moveRight(g) ELSE g
          [] action = "ROTATE_CW" -> IF playing THEN Piece_rotateCW(g) ELSE g
          [] action = "ROTATE_CCW" -> IF playing THEN Piece_rotateCCW(g) ELSE g
          [] action = "SOFT_DROP" -> IF playing THEN [g EXCEPT !.softDropping = TRUE] ELSE g
          [] action = "HARD_DROP" -> onHardDrop(g, oracle, fresh)
          [] action = "HOLD" -> Game_holdPiece(g, fresh)
          [] action = "PAUSE" -> Game_togglePause(g)
          [] action = "RESTART" -> IF g.state = "GAME_OVER"
                                   THEN Game_restart(g, fresh, refill) ELSE g

\* the handlers that Game.setupInput() registers, run for a key that has
\* just gone down
onAction(g, action, oracle, fresh, refill) ==
    LET playing == g.state = "PLAYING" /\ g.piece # NoPiece
    IN  CASE action = "MOVE_LEFT" -> IF playing THEN Piece_moveLeft(g) ELSE g
          [] action = "MOVE_RIGHT" -> IF playing THEN Piece_moveRight(g) ELSE g
          [] action = "ROTATE_CW" -> IF playing THEN Piece_rotateCW(g) ELSE g
          [] action = "ROTATE_CCW" -> IF playing THEN Piece_rotateCCW(g) ELSE g
          [] action = "SOFT_DROP" -> IF playing THEN [g EXCEPT !.softDropping = TRUE] ELSE g
          [] action = "HARD_DROP" -> onHardDrop(g, oracle, fresh)
          [] action = "HOLD" -> IF g.state = "PLAYING" THEN Game_holdPiece(g, fresh) ELSE g
          [] action = "PAUSE" -> Game_togglePause(g)
          [] action = "RESTART" -> IF g.state = "GAME_OVER"
                                   THEN Game_restart(g, fresh, refill) ELSE g

\* InputHandler.handleKeyDown(event) for a key of the action that is up
handleKeyDown(g, action, oracle, fresh, refill) ==
    IF ~g.enabled THEN g ELSE onAction(g, action, oracle, fresh, refill)

\* InputHandler.handleKeyUp(event) for the soft drop key: the handler of
\* SOFT_DROP_RELEASE
handleKeyUp(g) ==
    IF g.piece # NoPiece THEN [g EXCEPT !.softDropping = FALSE] ELSE g

(***************************************************************************)
(* The steps of a Neon Shatter game                                        *)
(*                                                                         *)
(* A step is a call of Game.start(), a run of Game.fixedUpdate() from the  *)
(* game loop, or a key event of the InputHandler.  Nothing in the source   *)
(* calls start(); the page that embeds the game does.                      *)
(***************************************************************************)
\* the fields of the game become those of g
SetGame(g) ==
    /\ state' = g.state
    /\ enabled' = g.enabled
    /\ isRunning' = g.isRunning
    /\ grid' = g.grid
    /\ isClearing' = g.isClearing
    /\ linesToClear' = g.linesToClear
    /\ statisticsCombo' = g.statisticsCombo
    /\ currentPiece' = g.piece
    /\ locked' = g.locked
    /\ isInLockDelay' = g.isInLockDelay
    /\ lockDelayMoves' = g.lockDelayMoves
    /\ groundedMoves' = g.groundedMoves
    /\ softDropping' = g.softDropping
    /\ ghostRow' = g.ghostRow
    /\ distanceFallen' = g.distanceFallen
    /\ holdPiece' = g.heldPiece
    /\ canHold' = g.canHold
    /\ nextPieces' = g.nextPieces
    /\ bag' = g.bag
    /\ nextBag' = g.nextBag
    /\ SetScoreManager(g.sm)
    /\ isGameOver' = g.over
    /\ locks' = g.locks
    /\ lastSpawn' = g.spawn
    /\ heldAt' = g.heldAt
    /\ UNCHANGED <<appVars, amberVars, timeVars>>

\* left alone by the steps of a Neon Shatter game
gameRest == <<app, gridBefore, clearedLines, timers, nextPiece, spawnTimers, drawCount,
              blocks, peekCount, peekPending, peekMatched, lastClear, tetrisStreak,
              softCells>>

\* the shuffles of generatePieceBag() explored in a game: Math.random()
\* returns the same value of RandomSamples throughout a game, so that every
\* new bag of the game is the same as the one before
GameBags == {generatePieceBag([k \in 1..(Len(PIECE_TYPES) - 1) |-> r]) : r \in RandomSamples}

\* the keys that act on the piece
COMMANDS == {"MOVE_LEFT", "MOVE_RIGHT", "ROTATE_CW", "ROTATE_CCW", "SOFT_DROP",
             "HARD_DROP", "HOLD"}

\* the keys that move or turn the piece
MOVES == {"MOVE_LEFT", "MOVE_RIGHT", "ROTATE_CW", "ROTATE_CCW"}

\* new Game() when generatePieceBag() returns one of bags: the constructor
\* fills the queue of next pieces
InitGameWith(bags) ==
    /\ app = "shatter"
    /\ op = "new Game"
    /\ grid = EmptyGrid(TOTAL_HEIGHT, WIDTH)
    /\ gridBefore = grid
    /\ clearedLines = <<>>
    /\ timers = <<>>
    /\ currentPiece = NoPiece
    /\ nextPiece = "none"
    /\ holdPiece = "none"
    /\ canHold = TRUE
    /\ isRunning = FALSE
    /\ isGameOver = FALSE
    /\ spawnTimers = 0
    /\ locks = 0
    /\ drawCount = NoDraws
    /\ blocks = 0
    /\ peekCount = 0
    /\ peekPending = <<>>
    /\ peekMatched = TRUE
    /\ ScoreIdle
    /\ state = "MENU"
    /\ enabled = TRUE
    /\ isClearing = FALSE
    /\ linesToClear = <<>>
    /\ locked = FALSE
    /\ isInLockDelay = FALSE
    /\ lockDelayMoves = 0
    /\ groundedMoves = 0
    /\ softDropping = FALSE
    /\ ghostRow = 0
    /\ lastSpawn = NoSpawn
    /\ heldAt = -1
    /\ isPaused = FALSE
    /\ appIsRunning = FALSE
    /\ appIsPaused = FALSE
    /\ keys = FALSE
    /\ pressed = FALSE
    /\ fallSpeed = INITIAL_FALL_SPEED
    /\ dropCounter = 0
    /\ lockDelay = 0
    /\ groundedTime = 0
    /\ \E first \in bags :
          /\ nextPieces = SubSeq(first, 1, 5)
          /\ bag = SubSeq(first, 6, Len(first))
          /\ nextBag = first

\* new Game()
InitGame == InitGameWith(GameBags)

\* the outcomes to explore in a step: all of them when the step locks a piece,
\* and one, which is not looked at, when it does not
Asked(oracles, locking) == IF locking THEN oracles ELSE {CHOOSE oracle \in oracles : TRUE}

\* Game.start(), called by the page
GameStart ==
    /\ app = "shatter"
    /\ ~isRunning
    /\ op' = "start"
    /\ SetGame(Game_start(game, nextBag, nextBag))
    /\ UNCHANGED gameRest

\* the high score entries explored under limit
SavesOf(limit) == IF "saves" \in DOMAIN limit THEN limit.saves ELSE 0

\* a run of Game.fixedUpdate() from Game.gameLoop() that changes the game.
\* A game is explored for limit.locks locks, and a piece for limit.fall cells
\* of descent; the list of high scores is explored up to limit.saves entries.
FixedUpdate(oracles, limit) ==
    /\ app = "shatter"
    /\ isRunning
    /\ op' = "fixedUpdate"
    /\ \E due \in BOOLEAN :
        \E oracle \in Asked(oracles, state = "PLAYING" /\ currentPiece # NoPiece
                                  /\ Piece_update(game, due).locked) :
          LET after == Game_fixedUpdate(game, due, oracle, nextBag)
          IN  /\ after # game
              /\ after.locks <= limit.locks
              /\ after.distanceFallen <= limit.fall
              /\ Len(after.sm.highScores) <= SavesOf(limit)
              /\ SetGame(after)
    /\ UNCHANGED gameRest

\* InputHandler.handleKeyDown() for a key of the action that was up.  The
\* keys that act on the piece in play are pressed for the first limit.locks
\* pieces of a game, and those that move or turn it while the piece has made fewer
\* than limit.moves moves in lock delay; while a piece is in play the keys
\* pressed are those of limit.keys.
KeyDown(action, oracles, limit) ==
    /\ app = "shatter"
    /\ (action \in COMMANDS /\ state = "PLAYING") => locks < limit.locks
    /\ (state = "PLAYING" /\ currentPiece # NoPiece) => action \in limit.keys
    /\ action \in MOVES => lockDelayMoves < limit.moves
    /\ op' = action
    /\ \E oracle \in Asked(oracles, action = "HARD_DROP") :
          SetGame(handleKeyDown(game, action, oracle, nextBag, nextBag))
    /\ UNCHANGED gameRest

\* InputHandler.handleKeyUp() for the soft drop key
KeyUp ==
    /\ app = "shatter"
    /\ softDropping
    /\ op' = "SOFT_DROP_RELEASE"
    /\ SetGame(handleKeyUp(game))
    /\ UNCHANGED gameRest

(***************************************************************************)
(* SpecShatter: a Neon Shatter game on its grid                            *)
(***************************************************************************)
\* locks explored in one game on the grid
MaxGridLocks == 1

\* moves and turns of one piece in lock delay explored on the grid
MaxGridMoves == 1

\* cells of descent of one piece explored on the grid
MaxGridFall == 2

GridLimit == [locks |-> MaxGridLocks, moves |-> MaxGridMoves, fall |-> MaxGridFall,
              keys |-> GameActions]

NextShatter ==
    \/ GameStart
    \/ FixedUpdate({Geometric}, GridLimit)
    \/ \E action \in GameActions : KeyDown(action, {Geometric}, GridLimit)
    \/ KeyUp

SpecShatter == InitGame /\ [][NextShatter]_vars

\* C13: whenever spawnNextPiece() creates a piece whose spawn placement
\* overlaps a locked cell or leaves the grid, the game is in GAME_OVER when
\* the call returns and no PIECE_SPAWN has been emitted.
C13_SpawnCollisionEndsGame ==
    lastSpawn.overlaps => (lastSpawn.state = "GAME_OVER" /\ ~lastSpawn.emitted)

\* C14: in every PLAYING state with an active piece that is not locked, every
\* cell of the piece lies in the grid and on an empty cell.
C14_ActivePieceFree ==
    (app = "shatter" /\ state = "PLAYING" /\ currentPiece # NoPiece /\ ~locked) =>
        Helpers_isValidPosition(grid, shapeOf(currentPiece), currentPiece.row,
                                currentPiece.col)

\* C26: Neon Shatter: a lock declares the game over if and only if the next
\* piece of the queue, at the centred placement where spawnNextPiece() puts
\* it, overlaps a locked cell of the grid as it is once the rows completed
\* by that lock are removed.
C26_GameOverAtSpawnPlacement ==
    [][(app = "shatter" /\ locks' = locks + 1) =>
          LET next == newPiece(Head(nextPieces))
          IN  (state' = "GAME_OVER")
                <=> ~Helpers_isValidPosition(clearLines(grid', linesToClear'),
                                             shapeOf(next), next.row, next.col)]_vars


(***************************************************************************)
(* The controller of Neon Shatter over a board that is told               *)
(*                                                                         *)
(* A complete row takes many pieces, and a level-up ten rows.  To explore  *)
(* the states of the controller the outcome of a lock (the rows that       *)
(* Board.placePiece() finds complete, and what Board.checkGameOver()       *)
(* answers) is an input of the step, and the grid is left empty.  The      *)
(* piece still moves on the grid.  Board.isPerfectClear() is only asked    *)
(* after a piece was placed without completing a row, and is then false.   *)
(***************************************************************************)
\* the locks explored in a game of the controller
MaxControlLocks == 3

ToldLines == {<<>>, <<18, 19, 20, 21>>}

Told == {[geometric |-> FALSE, lines |-> lines, perfect |-> FALSE, over |-> over] :
            lines \in ToldLines, over \in BOOLEAN}

\* while a piece is in play it is dropped and held, and the game paused
ControlLimit == [locks |-> MaxControlLocks, moves |-> MaxGridMoves, fall |-> MaxGridFall,
                 keys |-> {"SOFT_DROP", "HARD_DROP", "HOLD", "PAUSE"}]

NextControl ==
    \/ GameStart
    \/ FixedUpdate(Told, ControlLimit)
    \/ \E action \in GameActions : KeyDown(action, Told, ControlLimit)
    \/ KeyUp

\* the controller is explored with the bag dealt when Math.random() is 0
InitControl ==
    InitGame /\ nextBag = generatePieceBag([k \in 1..(Len(PIECE_TYPES) - 1) |-> <<0, 6>>])

SpecControl == InitControl /\ [][NextControl]_vars


\* C15: Neon Shatter: GAME_OVER is terminal until restart.  Once Game.gameOver()
\* has run in a game (isGameOver) the state is GAME_OVER after every step, and
\* a step taken after it changes neither the grid nor the active piece.
C15_GameOverTerminal ==
    [][(app = "shatter" /\ isGameOver') =>
          /\ state' = "GAME_OVER"
          /\ isGameOver => (grid' = grid /\ currentPiece' = currentPiece)]_vars

\* C16: Neon Shatter: a restart issued in GAME_OVER discards the old game and
\* the controller leaves GAME_OVER for COUNTDOWN: after the RESTART key in
\* GAME_OVER the state is COUNTDOWN, the grid is empty, score, lines and level
\* are those of a new game and no piece is held.
C16_RestartFromGameOver ==
    [][(app = "shatter" /\ state = "GAME_OVER" /\ op' = "RESTART") =>
          /\ state' = "COUNTDOWN"
          /\ grid' = EmptyGrid(TOTAL_HEIGHT, WIDTH)
          /\ score' = 0 /\ linesCleared' = 0 /\ level' = 1
          /\ holdPiece' = "none"]_vars

\* C17: Neon Shatter: no piece is spawned while a line clear is pending.  When
\* Game.spawnNextPiece() has run in a step, Board.isClearing was false and the
\* grid held no complete row.
C17_NoSpawnWhileClearing ==
    (app = "shatter" /\ lastSpawn.type # "none") =>
        (~lastSpawn.isClearing /\ lastSpawn.completed = 0)

\* C19: Neon Shatter: in every state of the controller other than PLAYING the
\* keys that act on the piece (move, rotate, soft drop, hard drop, hold) leave
\* the grid, the active piece, the held kind, the queue and the score as they
\* are.
C19_CommandsIgnoredOutsidePlaying ==
    [][(app = "shatter" /\ op' \in COMMANDS /\ state # "PLAYING") =>
          /\ grid' = grid
          /\ currentPiece' = currentPiece
          /\ holdPiece' = holdPiece
          /\ nextPieces' = nextPieces
          /\ score' = score]_vars

\* HOLD was pressed while the game was paused with a piece that could be held
C19_Witness ==
    /\ app = "shatter"
    /\ op = "HOLD"
    /\ state = "PAUSED"
    /\ currentPiece # NoPiece
    /\ canHold

\* C36: Neon Shatter discards no piece: a step that takes a kind from the
\* queue of next pieces and makes it the active piece either finds no active
\* piece, or locks the active piece itself, or is the first hold of the game,
\* which moves the active piece to the hold slot.
C36_NoPieceDiscarded ==
    [][(app = "shatter" /\ lastSpawn' # NoSpawn) =>
          \/ currentPiece = NoPiece
          \/ locks' = locks + 1
          \/ op' = "HOLD" /\ holdPiece = "none" /\ holdPiece' = currentPiece.type]_vars


(***************************************************************************)
(* SpecHold: the hold key of the Neon Edition engine                       *)
(*                                                                         *)
(* Game.lockPiece() leaves currentPiece in place until the callback of its *)
(* timer has spawned the next piece, and the hold key is not looked at     *)
(* differently in between: here it is pressed at any time, while the other *)
(* keys wait for the next piece.                                           *)
(***************************************************************************)
\* Game.holdCurrentPiece()
HoldCurrentPiece ==
    /\ app = "edition"
    /\ op' = "hold"
    /\ IF ~canHold \/ currentPiece = NoPiece \/ isGameOver
       THEN UNCHANGED <<currentPiece, nextPiece, holdPiece, canHold, bag, heldAt>>
       ELSE /\ holdPiece' = currentPiece.type
            /\ canHold' = FALSE
            /\ heldAt' = locks
            /\ IF holdPiece # "none"
               THEN /\ currentPiece' = Piece(holdPiece)
                    /\ UNCHANGED <<nextPiece, bag>>
               ELSE /\ currentPiece' = Piece(nextPiece)
                    /\ \E full \in BagsOfGetNext(bag, SampledBags) :
                          /\ nextPiece' = PopKind(full)
                          /\ bag' = PopRest(full)
    /\ UNCHANGED <<app, boardVars, isRunning, isGameOver, spawnTimers, locks, bagVars,
                   scoreVars, pieceVars, enabled, appVars, amberVars, timeVars>>

NextHold ==
    \/ Start
    \/ SpawnTimer
    \/ HoldCurrentPiece
    \/ spawnTimers = 0 /\ \E direction \in {-1, 1} : MovePiece(direction)
    \/ spawnTimers = 0 /\ HardDrop

SpecHold == InitEdition /\ [][NextHold]_vars

\* C12: hold is used at most once per piece lifetime.  When a hold has taken
\* effect since the last lock (heldAt = locks), a hold command changes
\* neither the held kind nor the active piece; and the first hold of a game
\* stores the active kind and makes the next queued kind the active one.
C12_OneHoldPerPiece ==
    [][(app = "edition" /\ op' = "hold") =>
          /\ heldAt = locks => (holdPiece' = holdPiece /\ currentPiece' = currentPiece)
          /\ (heldAt = -1 /\ currentPiece # NoPiece /\ ~isGameOver) =>
                (holdPiece' = currentPiece.type /\ currentPiece' = Piece(nextPiece))]_vars


(***************************************************************************)
(* SpecPause: the pause key of the Neon Edition app                        *)
(*                                                                         *)
(* TetrisApp and the Input of the game both listen to keydown on the       *)
(* document.  TetrisApp registers its listener in init(), the Input in its *)
(* constructor, which runs in startGame(): for every key event the         *)
(* listener of TetrisApp runs first.                                       *)
(***************************************************************************)
\* the fields a pause key event reads and writes
pauseFields ==
    [isPaused |-> isPaused, appIsPaused |-> appIsPaused, enabled |-> enabled, keys |-> keys]

\* Game.pause(), with Input.disable() and Input.clearAllKeys()
pause(p) ==
    IF ~isRunning \/ isGameOver THEN p
    ELSE [p EXCEPT !.isPaused = TRUE, !.enabled = FALSE, !.keys = FALSE]

\* Game.resume(), with Input.enable()
resume(p) ==
    IF ~isRunning \/ ~p.isPaused \/ isGameOver THEN p
    ELSE [p EXCEPT !.isPaused = FALSE, !.enabled = TRUE]

\* Game.togglePause()
togglePause(p) == IF p.isPaused THEN resume(p) ELSE pause(p)

\* TetrisApp.pauseGame()
pauseGame(p) ==
    IF ~appIsRunning \/ p.appIsPaused THEN p
    ELSE [pause(p) EXCEPT !.appIsPaused = TRUE]

\* TetrisApp.resumeGame()
resumeGame(p) ==
    IF ~appIsRunning \/ ~p.appIsPaused THEN p
    ELSE [resume(p) EXCEPT !.appIsPaused = FALSE]

\* TetrisApp.handleKeyDown(e) for a pause key
appHandleKeyDown(p) ==
    IF appIsRunning THEN (IF p.appIsPaused THEN resumeGame(p) ELSE pauseGame(p)) ELSE p

\* Input.handleKeyDown(e) for a pause key: the listener of 'pause' is
\* Game.togglePause()
inputHandleKeyDown(p) ==
    IF ~p.enabled \/ p.keys THEN p ELSE togglePause([p EXCEPT !.keys = TRUE])

\* Input.handleKeyUp(e) for a pause key: the release is emitted to the
\* listener of 'pause' as well
inputHandleKeyUp(p) ==
    IF p.keys THEN togglePause([p EXCEPT !.keys = FALSE]) ELSE p

SetPauseFields(p) ==
    /\ isPaused' = p.isPaused
    /\ appIsPaused' = p.appIsPaused
    /\ enabled' = p.enabled
    /\ keys' = p.keys

\* TetrisApp.startGame() from the menu: new Game(), Game.start()
StartGame ==
    /\ app = "edition"
    /\ op = "new Game"
    /\ \E full \in SampledBags :
           SpawnPiece(EmptyGrid(TOTAL_HEIGHT, WIDTH), PopKind(full), PopRest(full), TRUE)
    /\ grid' = EmptyGrid(TOTAL_HEIGHT, WIDTH)
    /\ op' = "start"
    /\ appIsRunning' = TRUE
    /\ SetPauseFields([isPaused |-> FALSE, appIsPaused |-> FALSE, enabled |-> TRUE,
                       keys |-> FALSE])
    /\ UNCHANGED <<app, gridBefore, clearedLines, timers, holdPiece, spawnTimers, locks,
                   bagVars, scoreVars, pieceVars, heldAt, amberVars, timeVars, pressed>>

\* a pause key goes down once a game has been started: the listener of
\* TetrisApp, then that of the Input
PauseKeyDown ==
    /\ app = "edition"
    /\ op # "new Game"
    /\ ~pressed
    /\ pressed' = TRUE
    /\ op' = "keydown"
    /\ SetPauseFields(inputHandleKeyDown(appHandleKeyDown(pauseFields)))
    /\ UNCHANGED <<app, boardVars, gameVars, bagVars, scoreVars, pieceVars, heldAt, amberVars, timeVars,
                   appIsRunning>>

\* the pause key goes up: the listener of the Input
PauseKeyUp ==
    /\ app = "edition"
    /\ pressed
    /\ pressed' = FALSE
    /\ op' = "keyup"
    /\ SetPauseFields(inputHandleKeyUp(pauseFields))
    /\ UNCHANGED <<app, boardVars, gameVars, bagVars, scoreVars, pieceVars, heldAt, amberVars, timeVars,
                   appIsRunning>>

\* the callback of the spawn timer, with Game.endGame() and
\* TetrisApp.handleGameOver() when the piece cannot be placed
PauseSpawnTimer ==
    /\ app = "edition"
    /\ spawnTimers > 0
    /\ spawnTimers' = spawnTimers - 1
    /\ SpawnPiece(grid, nextPiece, bag, isRunning)
    /\ op' = "spawnPiece"
    /\ appIsRunning' = (appIsRunning /\ (isGameOver' = isGameOver))
    /\ IF isGameOver' = isGameOver THEN UNCHANGED <<enabled, keys>>
       ELSE enabled' = FALSE /\ keys' = FALSE
    /\ UNCHANGED <<app, boardVars, holdPiece, locks, bagVars, scoreVars, pieceVars, heldAt, amberVars, timeVars,
                   isPaused, appIsPaused, pressed>>

NextPause ==
    \/ StartGame
    \/ PauseKeyDown
    \/ PauseKeyUp
    \/ PauseSpawnTimer
    \/ spawnTimers = 0 /\ ~isPaused /\ Update
    \/ spawnTimers = 0 /\ enabled /\ \E direction \in {-1, 1} : MovePiece(direction)

SpecPause == InitEdition /\ [][NextPause]_vars

\* C18: Neon Edition: the pause key round-trips.  With a running game, a
\* press of the pause key when neither the game nor the app is paused leaves
\* both paused, and a press when both are paused leaves neither paused (so
\* that update() advances the game again).
C18_PauseRoundTrip ==
    [][(app = "edition" /\ op' = "keydown" /\ appIsRunning /\ isRunning /\ ~isGameOver) =>
          /\ (~isPaused /\ ~appIsPaused) => (isPaused' /\ appIsPaused')
          /\ (isPaused /\ appIsPaused) => (~isPaused' /\ ~appIsPaused')]_vars


(***************************************************************************)
(* SpecLockDelay: the first piece of a Neon Shatter game, moved and turned *)
(* on the floor until it locks                                             *)
(***************************************************************************)
\* moves and turns of one resting piece explored
MaxGroundedMoves == 15

LockLimit == [locks |-> MaxGridLocks, moves |-> MAX_LOCK_MOVES, fall |-> MaxGridFall,
              keys |-> MOVES]

\* the piece rests: Piece.moveDown() would fail
Resting(g) ==
    ~Helpers_isValidPosition(g.grid, shapeOf(g.piece), g.piece.row + 1, g.piece.col)

\* InputHandler.handleKeyDown() for a key that moves or turns the piece; the
\* move is counted when the piece rested and the key has moved or turned it
MoveKeyDown(action, limit) ==
    /\ app = "shatter"
    /\ state = "PLAYING"
    /\ currentPiece # NoPiece
    /\ locks < limit.locks
    /\ groundedMoves < MaxGroundedMoves
    /\ op' = action
    /\ LET after == handleKeyDown(game, action, Geometric, nextBag, nextBag)
           counted == Resting(game) /\ after.piece # currentPiece
       IN  SetGame([after EXCEPT !.groundedMoves = IF counted THEN @ + 1 ELSE @])
    /\ UNCHANGED gameRest

NextLockDelay ==
    \/ GameStart
    \/ FixedUpdate({Geometric}, LockLimit)
    \/ \E action \in MOVES : MoveKeyDown(action, LockLimit)

SpecLockDelay == InitControl /\ [][NextLockDelay]_vars

\* C20: a Neon Shatter piece that rests on the floor is locked by its
\* MAX_LOCK_MOVES-th successful move or turn made while resting at the
\* latest, however the moves are timed.
C20_LockWithinMaxMoves ==
    (app = "shatter" /\ currentPiece # NoPiece /\ groundedMoves >= MAX_LOCK_MOVES) => locked


(***************************************************************************)
(* SpecRotate: a Neon Shatter game whose first piece, of every kind, is    *)
(* moved and turned against the walls and the floor; the pieces after it   *)
(* fall and lock untouched                                                 *)
(***************************************************************************)
\* the random values of a shuffle that brings the kind at index k of
\* PIECE_TYPES to the front: the swap of step k is with index 0, and no
\* other step moves an element
DrawsToFront(k) ==
    [n \in 1..(Len(PIECE_TYPES) - 1) |->
        IF Len(PIECE_TYPES) - n = k THEN <<0, 10>> ELSE <<9, 10>>]

\* one bag for every kind that leads it
KindBags == {generatePieceBag(DrawsToFront(k)) : k \in 0..(Len(PIECE_TYPES) - 1)}

RotateLimit == [locks |-> MaxGridLocks, moves |-> MaxGridMoves, fall |-> MaxGridFall,
                keys |-> MOVES]

NextRotate ==
    \/ GameStart
    \/ FixedUpdate({Geometric}, RotateLimit)
    \/ locks = 0 /\ \E action \in MOVES : KeyDown(action, {Geometric}, RotateLimit)

SpecRotate == InitGameWith(KindBags) /\ [][NextRotate]_vars

\* the offsets the claim tells for a turn of the kind type
KicksTold(type, from, to) ==
    IF type = "I" THEN iPieceKicks[from][to] ELSE standardKicks[from][to]

\* the piece after a turn to the rotation to that tries the offsets of table
\* in their order and commits the first that fits
TurnedInOrder(board, piece, to, table) ==
    LET fits(i) == Helpers_isValidPosition(board, ShapeTable[piece.type][to],
                                           piece.row + table[i][2], piece.col + table[i][1])
    IN  IF \E i \in 1..Len(table) : fits(i)
        THEN LET i == CHOOSE i \in 1..Len(table) : fits(i) /\ \A k \in 1..(i - 1) : ~fits(k)
             IN  [type |-> piece.type, row |-> piece.row + table[i][2],
                  col |-> piece.col + table[i][1], rotation |-> to]
        ELSE piece

\* C21: Neon Shatter: a turn of a piece other than O tries the offsets of
\* its table (the table of the I piece for I, the standard table for the
\* others) in their order, the zero offset first, and commits the first
\* offset whose placement is valid, rotation and offset together.
C21_KicksInTableOrder ==
    [][(/\ app = "shatter" /\ op' \in {"ROTATE_CW", "ROTATE_CCW"}
        /\ state = "PLAYING" /\ enabled /\ currentPiece # NoPiece /\ ~locked
        /\ currentPiece.type # "O") =>
          LET from == currentPiece.rotation
              to == IF op' = "ROTATE_CW" THEN (from + 1) % 4 ELSE (from + 3) % 4
              table == KicksTold(currentPiece.type, from, to)
          IN  /\ table[1] = <<0, 0>>
              /\ currentPiece' = TurnedInOrder(grid, currentPiece, to, table)]_vars

\* a turn has been committed with an offset that is not the first of its table
C21_Witness ==
    /\ app = "shatter" /\ op \in {"ROTATE_CW", "ROTATE_CCW"}
    /\ state = "PLAYING" /\ currentPiece # NoPiece
    /\ currentPiece.rotation # 0
    /\ currentPiece.row < SPAWN_ROW

\* C30: Neon Shatter: a piece in lock delay that was moved or turned to a
\* placement from which it can still move down leaves the lock delay and
\* descends again at the next gravity steps: a fixed update locks no piece
\* whose placement one row lower is valid, unless the piece has made
\* MAX_LOCK_MOVES moves in lock delay.
C30_NoLockAboveFreeRow ==
    [][(/\ app = "shatter" /\ op' = "fixedUpdate" /\ locks' = locks + 1
        /\ state = "PLAYING" /\ currentPiece # NoPiece /\ ~locked
        /\ lockDelayMoves < MAX_LOCK_MOVES) =>
          ~Helpers_isValidPosition(grid, shapeOf(currentPiece), currentPiece.row + 1,
                                   currentPiece.col)]_vars


(***************************************************************************)
(* SpecFall: the score, level and fall speed of a long Amber game          *)
(*                                                                         *)
(* The locks of the game reach GameLogic.updateScore() as the numbers of   *)
(* rows they complete; the locks that complete none do not call it.        *)
(***************************************************************************)
\* rows cleared in one game of SpecFall
MaxAmberLines == 200

\* GameLogic.updateScore(linesCount) with updateFallSpeed()
UpdateScore ==
    /\ app = "amber"
    /\ linesCleared < MaxAmberLines
    /\ op' = "updateScore"
    /\ \E linesCount \in 1..4 :
          LET after == updateScore([score |-> score, level |-> level,
                                    lines |-> linesCleared], linesCount)
          IN  /\ score' = after.score
              /\ level' = after.level
              /\ linesCleared' = after.lines
              /\ fallSpeed' = IF after.level > level THEN updateFallSpeed(after.level)
                              ELSE fallSpeed
    /\ UNCHANGED <<app, isRunning, isGameOver, locks, scoreRest, targetLines, combo,
                   backToBack, statisticsCombo, distanceFallen, lastClear, tetrisStreak,
                   softCells, highScores, isNewHighScore>>

NextFall == UpdateScore

\* the Amber game after construction
InitFall == InitScore /\ app = "amber"

SpecFall == InitFall /\ [][NextFall]_vars

\* C25: Amber: in every state fallSpeed is max(100, 1000 - 50 * (level - 1))
\* milliseconds, so that it lies between 100 and 1000, and no step of a game
\* raises it.
C25_FallSpeedFormula ==
    /\ [](app = "amber" =>
            /\ fallSpeed = IF 1000 - 50 * (level - 1) > 100 THEN 1000 - 50 * (level - 1)
                           ELSE 100
            /\ fallSpeed >= 100 /\ fallSpeed <= 1000)
    /\ [][app = "amber" => fallSpeed' <= fallSpeed]_vars

\* the game has reached a level at which the lower limit of the fall speed
\* takes effect
C25_Witness == app = "amber" /\ op = "updateScore" /\ level >= 20 /\ fallSpeed = 100


(***************************************************************************)
(* The Amber game: Tetromino, Board and GameLogic                          *)
(*                                                                         *)
(* A tetromino is [type, shape, x, y]; the grid holds the kind of a locked *)
(* block where the source holds its mesh.  The methods of GameLogic are    *)
(* operators on the record of its fields; the kind of a new Tetromino,     *)
(* which the source draws with Math.random(), is an argument.              *)
(***************************************************************************)
\* CONFIG.SHAPES
CONFIG_SHAPES ==
    [I |-> << <<0, 0, 0, 0>>, <<1, 1, 1, 1>>, <<0, 0, 0, 0>>, <<0, 0, 0, 0>> >>,
     O |-> << <<1, 1>>, <<1, 1>> >>,
     T |-> << <<0, 1, 0>>, <<1, 1, 1>>, <<0, 0, 0>> >>,
     S |-> << <<0, 1, 1>>, <<1, 1, 0>>, <<0, 0, 0>> >>,
     Z |-> << <<1, 1, 0>>, <<0, 1, 1>>, <<0, 0, 0>> >>,
     J |-> << <<1, 0, 0>>, <<1, 1, 1>>, <<0, 0, 0>> >>,
     L |-> << <<0, 0, 1>>, <<1, 1, 1>>, <<0, 0, 0>> >>]

\* the x of a piece of the shape at the top of the board
SpawnX(shape) == (BOARD_WIDTH \div 2) - (Len(shape[1]) \div 2)

\* new Tetromino(scene, type), and a next piece that GameLogic.spawnPiece()
\* has put at the top
Tetromino(type) ==
    [type |-> type, shape |-> CONFIG_SHAPES[type], x |-> SpawnX(CONFIG_SHAPES[type]), y |-> 0]

\* Tetromino.rotate(): newShape[col] lists shape[row][col] for row from the
\* last to the first
Tetromino_rotate(piece) ==
    LET rows == Len(piece.shape)
        cols == Len(piece.shape[1])
    IN  [piece EXCEPT !.shape = [col \in 1..cols |-> [k \in 1..rows |->
                                    piece.shape[rows - k + 1][col]]]]

\* Tetromino.getBlockPositions(): the positions <<x, y>>
getBlockPositions(piece) ==
    {<<piece.x + rc[2] - 1, piece.y + rc[1] - 1>> :
        rc \in {cell \in (1..Len(piece.shape)) \X (1..Len(piece.shape[1])) :
                   piece.shape[cell[1]][cell[2]] = 1}}

\* Amber Board.isValidPosition(positions)
Board_isValidPosition(board, positions) ==
    \A pos \in positions :
        /\ pos[1] >= 0 /\ pos[1] < BOARD_WIDTH /\ pos[2] >= 0 /\ pos[2] < BOARD_HEIGHT
        /\ board[pos[2] + 1][pos[1] + 1] = NoBlock

\* Amber Board.lockTetromino(tetromino)
lockTetromino(board, piece) ==
    [y \in 1..Len(board) |-> [x \in 1..Len(board[y]) |->
        IF <<x - 1, y - 1>> \in getBlockPositions(piece) THEN piece.type ELSE board[y][x]]]

\* Amber Board.isGameOver(): the top row has a block
Board_isGameOver(board) == \E x \in 1..BOARD_WIDTH : board[1][x] # NoBlock

\* the fields of the GameLogic and of its board
logic ==
    [grid |-> grid, timers |-> timers, piece |-> currentPiece, next |-> nextPiece,
     score |-> score, level |-> level, lines |-> linesCleared, fallSpeed |-> fallSpeed,
     isPaused |-> isPaused, over |-> isGameOver, locks |-> locks,
     gridBefore |-> gridBefore, clearedLines |-> clearedLines, fallen |-> distanceFallen]

\* GameLogic.gameOver()
GameLogic_gameOver(l) == [l EXCEPT !.over = TRUE]

\* GameLogic.spawnPiece() with a next piece
GameLogic_spawnPiece(l) ==
    LET spawned == [l EXCEPT !.piece = Tetromino(l.next), !.fallen = 0]
    IN  IF ~Board_isValidPosition(spawned.grid, getBlockPositions(spawned.piece))
        THEN GameLogic_gameOver(spawned)
        ELSE spawned

\* GameLogic.spawnNextPiece(), the new Tetromino being of the kind type
GameLogic_spawnNextPiece(l, type) == [l EXCEPT !.next = type]

\* Amber Board.clearLines(lines): the rows are emptied at once and their
\* compaction is scheduled
Board_clearLines(l, lines) ==
    [l EXCEPT !.grid = NullRows(l.grid, lines), !.timers = Append(l.timers, lines)]

\* GameLogic.updateScore(linesCount) with updateFallSpeed()
GameLogic_updateScore(l, linesCount) ==
    LET after == updateScore([score |-> l.score, level |-> l.level, lines |-> l.lines],
                             linesCount)
    IN  [l EXCEPT !.score = after.score, !.level = after.level, !.lines = after.lines,
                  !.fallSpeed = IF after.level > l.level THEN updateFallSpeed(after.level)
                                ELSE l.fallSpeed]

\* GameLogic.lockPiece(), the next Tetromino being of the kind type
GameLogic_lockPiece(l, type) ==
    IF l.piece = NoPiece THEN l
    ELSE LET placed == [l EXCEPT !.grid = lockTetromino(l.grid, l.piece),
                                 !.locks = @ + 1]
             completedLines == checkLines(placed.grid)
             cleared == IF Len(completedLines) > 0
                        THEN GameLogic_updateScore(Board_clearLines(placed, completedLines),
                                                   Len(completedLines))
                        ELSE placed
             done == [cleared EXCEPT !.piece = NoPiece, !.gridBefore = placed.grid,
                                     !.clearedLines = completedLines]
         IN  IF Board_isGameOver(done.grid) THEN GameLogic_gameOver(done)
             ELSE GameLogic_spawnNextPiece(GameLogic_spawnPiece(done), type)

\* the guard of the handlers of GameLogic
Ignored(l) == l.piece = NoPiece \/ l.isPaused \/ l.over

\* GameLogic.moveLeft() and GameLogic.moveRight(): Tetromino.moveLeft() is
\* x++ and Tetromino.moveRight() is x--
GameLogic_move(l, dx) ==
    LET moved == [l.piece EXCEPT !.x = @ + dx]
    IN  IF Ignored(l) THEN l
        ELSE IF ~Board_isValidPosition(l.grid, getBlockPositions(moved)) THEN l
        ELSE [l EXCEPT !.piece = moved]

GameLogic_moveLeft(l) == GameLogic_move(l, 1)

GameLogic_moveRight(l) == GameLogic_move(l, -1)

\* GameLogic.moveDown()
GameLogic_moveDown(l, type) ==
    LET moved == [l.piece EXCEPT !.y = @ + 1]
    IN  IF Ignored(l) THEN l
        ELSE IF ~Board_isValidPosition(l.grid, getBlockPositions(moved))
        THEN GameLogic_lockPiece(l, type)
        ELSE [l EXCEPT !.piece = moved, !.fallen = @ + 1]

\* GameLogic.rotatePiece()
GameLogic_rotatePiece(l) ==
    LET rotated == Tetromino_rotate(l.piece)
    IN  IF Ignored(l) THEN l
        ELSE IF ~Board_isValidPosition(l.grid, getBlockPositions(rotated)) THEN l
        ELSE [l EXCEPT !.piece = rotated]

\* the loop of GameLogic.hardDrop(): moveDown() while the position is valid
RECURSIVE DroppedPastValid(_, _)
DroppedPastValid(board, piece) ==
    IF Board_isValidPosition(board, getBlockPositions(piece))
    THEN DroppedPastValid(board, [piece EXCEPT !.y = @ + 1])
    ELSE piece

\* GameLogic.hardDrop()
GameLogic_hardDrop(l, type) ==
    IF Ignored(l) THEN l
    ELSE GameLogic_lockPiece(
             [l EXCEPT !.piece = [DroppedPastValid(l.grid, l.piece) EXCEPT !.y = @ - 1]],
             type)

\* the callback that Board.clearLines() has scheduled first
Board_dropLines(l) ==
    [l EXCEPT !.grid = CompactLines(l.grid, Head(l.timers)), !.timers = Tail(l.timers)]

(***************************************************************************)
(* SpecAmber: an Amber game on its grid                                    *)
(*                                                                         *)
(* A game is taken up when a piece has just been put at the top, on the    *)
(* empty board or on one of two stacks that earlier pieces have built      *)
(* without completing a row.  The first piece is moved, turned and dropped;*)
(* the pieces after it fall and are dropped where they appear.  The timers *)
(* of Board.clearLines() run at any later step, in the order they were     *)
(* set (all have the same delay).                                          *)
(***************************************************************************)
\* locks explored in one game
MaxAmberLocks == 2

\* cells one piece descends by gravity
MaxAmberFall == 1

\* the kinds that Math.random() selects in the games explored
AmberKinds == {"I", "O"}

\* the grid with the kind kinds[i] in the cells <<row, col>> of cells[i]
GridOf(cells, kinds) ==
    [y \in 1..BOARD_HEIGHT |-> [x \in 1..BOARD_WIDTH |->
        IF \E i \in 1..Len(cells) : <<y - 1, x - 1>> \in cells[i]
        THEN kinds[CHOOSE i \in 1..Len(cells) : <<y - 1, x - 1>> \in cells[i]]
        ELSE NoBlock]]

\* an L and a J lying in the corners of the floor: the bottom row lacks its
\* columns 3 to 6
PitGrid ==
    GridOf(<< {<<18, 2>>, <<19, 0>>, <<19, 1>>, <<19, 2>>},
              {<<18, 7>>, <<19, 7>>, <<19, 8>>, <<19, 9>>} >>, <<"L", "J">>)

\* towers of four upright I in the columns 0, 4 and 9, an O on each (columns
\* 0-1, 4-5 and 8-9 of the rows 2-3), and an I lying on the O to the left and
\* another on the O to the right (row 1): row 1 lacks its columns 4 and 5
\* and row 0 is empty
TowerGrid ==
    GridOf(<< {<<r, 0>> : r \in 4..19}, {<<r, 4>> : r \in 4..19}, {<<r, 9>> : r \in 4..19},
              {<<r, c>> : r \in 2..3, c \in {0, 1, 4, 5, 8, 9}},
              {<<1, c>> : c \in (0..3) \cup (6..9)} >>,
           <<"I", "I", "I", "O", "I">>)

AmberGrids == {EmptyGrid(BOARD_HEIGHT, BOARD_WIDTH), PitGrid, TowerGrid}

\* the fields of the GameLogic become those of l
SetLogic(l) ==
    /\ grid' = l.grid
    /\ timers' = l.timers
    /\ currentPiece' = l.piece
    /\ nextPiece' = l.next
    /\ score' = l.score
    /\ level' = l.level
    /\ linesCleared' = l.lines
    /\ fallSpeed' = l.fallSpeed
    /\ isPaused' = l.isPaused
    /\ isGameOver' = l.over
    /\ locks' = l.locks
    /\ gridBefore' = l.gridBefore
    /\ clearedLines' = l.clearedLines
    /\ distanceFallen' = l.fallen
    /\ UNCHANGED <<app, holdPiece, canHold, bag, isRunning, spawnTimers, bagVars,
                   targetLines, combo, backToBack, statisticsCombo, lastClear, tetrisStreak,
                   softCells, highScores, isNewHighScore, pieceVars, enabled, heldAt,
                   appIsRunning, appIsPaused, keys, pressed, timeVars>>

\* GameLogic.spawnPiece() and spawnNextPiece() have just run on a grid of
\* AmberGrids
InitAmber ==
    /\ app = "amber"
    /\ op = "spawnPiece"
    /\ grid \in AmberGrids
    /\ gridBefore = grid
    /\ clearedLines = <<>>
    /\ timers = <<>>
    /\ \E type \in AmberKinds : currentPiece = Tetromino(type)
    /\ nextPiece \in AmberKinds
    /\ isGameOver = ~Board_isValidPosition(grid, getBlockPositions(currentPiece))
    /\ holdPiece = "none"
    /\ canHold = TRUE
    /\ bag = <<>>
    /\ isRunning = TRUE
    /\ spawnTimers = 0
    /\ locks = 0
    /\ BagIdle
    /\ ScoreIdle
    /\ ControlIdle

\* the keys of the first piece: GameLogic.moveLeft(), moveRight(), rotatePiece()
AmberMoveLeft ==
    /\ app = "amber" /\ locks = 0
    /\ op' = "moveLeft"
    /\ SetLogic(GameLogic_moveLeft(logic))

AmberMoveRight ==
    /\ app = "amber" /\ locks = 0
    /\ op' = "moveRight"
    /\ SetLogic(GameLogic_moveRight(logic))

AmberRotate ==
    /\ app = "amber" /\ locks = 0
    /\ op' = "rotatePiece"
    /\ SetLogic(GameLogic_rotatePiece(logic))

\* a step of handler that locks op' as "lockPiece" when it has locked the piece
AmberStep(after, name) ==
    /\ after.locks <= MaxAmberLocks
    /\ after.fallen <= MaxAmberFall
    /\ op' = IF after.locks > locks THEN "lockPiece" ELSE name
    /\ SetLogic(after)

\* GameLogic.update() when the fall interval has passed: moveDown()
AmberUpdate ==
    /\ app = "amber"
    /\ ~Ignored(logic)
    /\ \E type \in AmberKinds : AmberStep(GameLogic_moveDown(logic, type), "moveDown")

\* GameLogic.hardDrop()
AmberHardDrop ==
    /\ app = "amber"
    /\ ~Ignored(logic)
    /\ \E type \in AmberKinds : AmberStep(GameLogic_hardDrop(logic, type), "hardDrop")

\* the first of the pending callbacks of Board.clearLines() runs
AmberDropLines ==
    /\ app = "amber"
    /\ Len(timers) > 0
    /\ op' = "dropLines"
    /\ SetLogic(Board_dropLines(logic))

NextAmber ==
    \/ AmberMoveLeft
    \/ AmberMoveRight
    \/ AmberRotate
    \/ AmberUpdate
    \/ AmberHardDrop
    \/ AmberDropLines

SpecAmber == InitAmber /\ [][NextAmber]_vars

\* C24: Amber: a lock declares the game over by the height of the stack if
\* and only if a locked block lies in the top row once the line clear of
\* that lock is complete, the completed rows removed and the rows above them
\* shifted down.
C24_GameOverByHeight ==
    [][(app = "amber" /\ op' = "lockPiece") =>
          ((isGameOver' /\ currentPiece' = NoPiece)
              <=> Board_isGameOver(RefClear(gridBefore', clearedLines')))]_vars

\* the number of blocks in the column x of a grid
BlocksInColumn(board, x) == Cardinality({y \in 1..Len(board) : board[y][x] # NoBlock})

\* C27: Amber: the deferred compaction of a line clear loses no block that a
\* lock has written before the timer fires, whatever was moved, dropped and
\* locked in between: the compaction only shifts blocks down, so that every
\* column holds as many blocks after the callback as before it.
C27_CompactionKeepsBlocks ==
    [][(app = "amber" /\ op' = "dropLines") =>
          \A x \in 1..BOARD_WIDTH : BlocksInColumn(grid', x) = BlocksInColumn(grid, x)]_vars

(***************************************************************************)
(* SpecTurn: the first piece of a game of each engine is moved and turned, *)
(* the rejected turns included                                             *)
(***************************************************************************)
\* the largest Game.lockMoves explored
MaxLockMoves == 3

\* what a move or turn of Neon Edition leaves alone
turnRest == <<app, boardVars, nextPiece, holdPiece, canHold, bag, isRunning, isGameOver,
              spawnTimers, locks, bagVars, scoreVars, state, isClearing, linesToClear,
              nextPieces, locked, isInLockDelay, groundedMoves, softDropping, ghostRow,
              lastSpawn,
              enabled, heldAt, appVars, amberVars, timeVars>>

\* Game.movePiece(direction) with Game.lockMoves
CountedMovePiece(direction) ==
    /\ app = "edition"
    /\ currentPiece # NoPiece /\ ~isGameOver
    /\ op' = "movePiece"
    /\ IF canPlacePiece(grid, currentPiece, 0, direction)
       THEN /\ lockDelayMoves < MaxLockMoves
            /\ currentPiece' = move(currentPiece, 0, direction)
            /\ lockDelayMoves' = lockDelayMoves + 1
       ELSE UNCHANGED <<currentPiece, lockDelayMoves>>
    /\ UNCHANGED turnRest

\* Game.rotatePiece(direction) with Game.lockMoves: the handler returns before
\* it counts the turn when the turned piece fits nowhere
CountedRotatePiece(direction) ==
    LET rotated == IF direction > 0 THEN rotateClockwise(currentPiece)
                   ELSE rotateCounterClockwise(currentPiece)
        kicked == tryWallKicks(grid, rotated) # rotated
    IN  /\ app = "edition"
        /\ currentPiece # NoPiece /\ ~isGameOver
        /\ op' = IF direction > 0 THEN "rotateClockwise" ELSE "rotateCounterClockwise"
        /\ currentPiece' = rotatePiece(grid, currentPiece, direction)
        /\ IF ~canPlacePiece(grid, rotated, 0, 0) /\ ~kicked
           THEN lockDelayMoves' = lockDelayMoves
           ELSE lockDelayMoves < MaxLockMoves /\ lockDelayMoves' = lockDelayMoves + 1
        /\ UNCHANGED turnRest

NextTurn ==
    \/ NextRotate
    \/ AmberMoveLeft
    \/ AmberMoveRight
    \/ AmberRotate
    \/ locks = 0 /\ AmberUpdate
    \/ Start
    \/ \E direction \in {-1, 1} : CountedMovePiece(direction)
    \/ \E direction \in {-1, 1} : CountedRotatePiece(direction)

\* a game of any of the three engines after construction
InitTurn ==
    \/ InitGameWith(KindBags)
    \/ InitAmber
    \/ InitEdition

SpecTurn == InitTurn /\ [][NextTurn]_vars

\* no placement of the Neon Shatter piece at the rotation to is valid, at any
\* offset of its table
ShatterNoFit(board, piece, to) ==
    LET table == getWallKickOffsets(piece.type, piece.rotation, to)
    IN  \A i \in 1..Len(table) :
            ~Helpers_isValidPosition(board, ShapeTable[piece.type][to],
                                     piece.row + table[i][2], piece.col + table[i][1])

\* no placement of the Neon Edition piece at the rotation to is valid, in
\* place or at any kick
EditionNoFit(board, piece, to) ==
    LET turned == [piece EXCEPT !.rotation = to]
    IN  /\ ~canPlacePiece(board, turned, 0, 0)
        /\ \A i \in 1..Len(kicks) : ~canPlacePiece(board, turned, kicks[i][1], kicks[i][2])

\* the rotation index a turn named by op leads to
TurnTarget(from, name) ==
    IF name \in {"ROTATE_CW", "rotateClockwise"} THEN (from + 1) % 4 ELSE (from + 3) % 4

\* C22: in all three engines a rejected turn leaves the piece unchanged: when
\* no candidate placement is valid the row, column, rotation and shape of the
\* piece after the call are those before it, and the count of lock moves
\* has not grown.
C22_RejectedTurnKeepsPiece ==
    [][/\ (/\ app = "shatter" /\ op' \in {"ROTATE_CW", "ROTATE_CCW"}
           /\ state = "PLAYING" /\ enabled /\ currentPiece # NoPiece /\ ~locked
           /\ currentPiece.type # "O"
           /\ ShatterNoFit(grid, currentPiece, TurnTarget(currentPiece.rotation, op')))
          => (currentPiece' = currentPiece /\ lockDelayMoves' = lockDelayMoves)
       /\ (/\ app = "edition" /\ op' \in {"rotateClockwise", "rotateCounterClockwise"}
           /\ currentPiece # NoPiece
           /\ EditionNoFit(grid, currentPiece, TurnTarget(currentPiece.rotation, op')))
          => (/\ currentPiece' = currentPiece
              /\ getCurrentShape(currentPiece') = getCurrentShape(currentPiece)
              /\ lockDelayMoves' = lockDelayMoves)
       /\ (/\ app = "amber" /\ op' = "rotatePiece"
           /\ currentPiece # NoPiece
           /\ ~Board_isValidPosition(grid, getBlockPositions(Tetromino_rotate(currentPiece))))
          => currentPiece' = currentPiece]_vars

\* a turn of the Neon Edition piece was rejected: no turn or move has been
\* counted, and the piece still fits at no placement of the rotation asked for
C22_Witness ==
    /\ app = "edition" /\ op \in {"rotateClockwise", "rotateCounterClockwise"}
    /\ currentPiece # NoPiece /\ lockDelayMoves = 0
    /\ EditionNoFit(grid, currentPiece, TurnTarget(currentPiece.rotation, op))

\* C31: Neon Edition: a rotate command on the O piece does nothing: the
\* rotation, the row and the column of the piece and the count of lock moves
\* are what they were (the 'pieceRotate' event is emitted where the count
\* grows, and nowhere else).
C31_TurnOfOIsNoOp ==
    [][(/\ app = "edition" /\ op' \in {"rotateClockwise", "rotateCounterClockwise"}
        /\ currentPiece # NoPiece /\ ~isGameOver
        /\ currentPiece.type = "O") =>
          (currentPiece' = currentPiece /\ lockDelayMoves' = lockDelayMoves)]_vars

(***************************************************************************)
(* SpecPerfect: the locks of Neon Shatter that complete rows, told whether *)
(* the grid holds a block once these rows are removed                      *)
(*                                                                         *)
(* Board.placePiece() returns right after startLineClear() when the lock   *)
(* has completed rows and asks isPerfectClear() only when it has completed *)
(* none; Board.completeLineClear() removes the rows and emits              *)
(* 'lineClearComplete', which has no listener.  The score of such a lock   *)
(* is therefore settled by handlePieceLock(), whatever the grid holds      *)
(* after the removal (perfect).                                            *)
(***************************************************************************)
\* Game.updatePlaying() finds the piece locked, and the lock completes rows
ShatterClearingLock ==
    /\ app = "shatter"
    /\ isRunning /\ ~isGameOver
    /\ distanceFallen = MaxFall
    /\ op' = "handlePieceLock"
    /\ \E numLines \in 1..4, perfect, over \in BOOLEAN :
          handlePieceLock(scoreManager, distanceFallen, numLines, perfect, over)

NextPerfect ==
    \/ ShatterStart
    \/ ShatterMoveDown
    \/ ShatterClearingLock
    \/ ShatterRestart

\* the Neon Shatter game after construction
InitPerfect == InitScore /\ app = "shatter"

SpecPerfect == InitPerfect /\ [][NextPerfect]_vars

PausedTick ==
    /\ app = "shatter"
    /\ isRunning
    /\ state = "PAUSED"
    /\ op' = "fixedUpdate"
    /\ \E due \in BOOLEAN :
        \E oracle \in Asked(Told, FALSE) :
            SetGame(Game_fixedUpdate(game, due, oracle, nextBag))
    /\ UNCHANGED gameRest

NextPaused ==
    \/ NextControl
    \/ PausedTick

SpecPaused == InitControl /\ [][NextPaused]_vars

\* what a pause keeps of the core of the game
pausedCore == <<grid, currentPiece, locked, isInLockDelay, lockDelayMoves, distanceFallen,
                isClearing, linesToClear, nextPieces, holdPiece, score, level, linesCleared>>

GRAVITY ==
    <<48, 43, 38, 33, 28, 23, 18, 13, 8, 6,
      5, 5, 5, 4, 4, 4, 3, 3, 3, 2,
      2, 2, 2, 2, 2, 2, 2, 2, 2, 1>>

\* TIMING.LOCK_DELAY
LOCK_DELAY == 500

\* Score.getGravitySpeed(): the entry of the level in the table, its last
\* entry for the levels beyond it
getGravitySpeed(l) == GRAVITY[IF l < Len(GRAVITY) THEN l ELSE Len(GRAVITY)]

\* dropCounter >= gravitySpeed * 16.67
DropDue(counter, gravitySpeed) == counter * 100 >= gravitySpeed * 1667

\* the durations of a frame explored
FrameTimes == {50, 100}

\* the longest rest of a piece explored
MaxGroundedTime == 4500

\* what a frame leaves alone
frameRest == <<app, timers, nextPiece, holdPiece, canHold, bag, isRunning, isGameOver,
               bagVars, scoreVars, state, isClearing, linesToClear, nextPieces, locked,
               isInLockDelay, groundedMoves, softDropping, ghostRow, lastSpawn, enabled, heldAt,
               appVars, amberVars>>

\* Game.update() deltaTime after the update before it: updateGravity() with
\* handleLockDelay() and lockPiece()
TimedUpdate(deltaTime) ==
    LET counted == dropCounter + deltaTime
        due == DropDue(counted, getGravitySpeed(level))
        free == canPlacePiece(grid, currentPiece, 1, 0)
        waited == lockDelay + deltaTime
        locking == due /\ ~free /\ (waited >= LOCK_DELAY \/ lockDelayMoves >= MAX_LOCK_MOVES)
    IN  /\ app = "edition"
        /\ isRunning /\ ~isPaused /\ ~isGameOver
        /\ currentPiece # NoPiece
        /\ locks = 0
        /\ groundedTime + deltaTime <= MaxGroundedTime
        /\ op' = IF locking THEN "lockPiece" ELSE "update"
        /\ groundedTime' = IF free THEN 0 ELSE groundedTime + deltaTime
        /\ dropCounter' = IF due THEN 0 ELSE counted
        /\ lockDelay' = IF ~due THEN lockDelay
                        ELSE IF free \/ locking THEN 0
                        ELSE waited
        /\ lockDelayMoves' = IF due /\ (free \/ locking) THEN 0 ELSE lockDelayMoves
        /\ currentPiece' = IF due /\ free THEN move(currentPiece, 1, 0) ELSE currentPiece
        /\ IF locking
           THEN /\ gridBefore' = BoardLockPiece(grid, currentPiece)
                /\ clearedLines' = findCompletedLines(gridBefore')
                /\ grid' = BoardClearLines(gridBefore', clearedLines')
                /\ spawnTimers' = spawnTimers + 1
                /\ locks' = locks + 1
           ELSE UNCHANGED <<grid, gridBefore, clearedLines, spawnTimers, locks>>
        /\ UNCHANGED frameRest

NextLockTime ==
    \/ Start
    \/ \E deltaTime \in FrameTimes : TimedUpdate(deltaTime)

SpecLockTime == InitEdition /\ [][NextLockTime]_vars

\* C29: Neon Edition: a piece that rests (it cannot move down) and receives
\* no input is locked as soon as it has rested for TIMING.LOCK_DELAY, 500 ms,
\* whatever the drop interval and the duration of the frames: no piece that
\* is not yet locked has rested that long.
C29_LocksAfterLockDelay ==
    (/\ app = "edition" /\ currentPiece # NoPiece /\ locks = 0
     /\ ~canPlacePiece(grid, currentPiece, 1, 0)) =>
        groundedTime < LOCK_DELAY


(***************************************************************************)
(* Hard drops in the two Neon engines                                      *)
(***************************************************************************)
\* pieces dropped in one game
MaxDropLocks == 2

DropLimit == [locks |-> MaxDropLocks, moves |-> MaxGridMoves, fall |-> MaxGridFall,
              keys |-> MOVES \cup {"HARD_DROP"}]

\* the first two pieces of a game are moved and turned, the first one falls,
\* and every piece is dropped with the hard drop key
NextDrop ==
    \/ GameStart
    \/ locks = 0 /\ FixedUpdate({Geometric}, DropLimit)
    \/ locks <= 1 /\ \E action \in MOVES : KeyDown(action, {Geometric}, DropLimit)
    \/ KeyDown("HARD_DROP", {Geometric}, DropLimit)
    \/ Start
    \/ SpawnTimer
    \/ spawnTimers = 0 /\ locks <= 1 /\ \E direction \in {-1, 1} : MovePiece(direction)
    \/ spawnTimers = 0 /\ locks <= 1 /\ \E direction \in {-1, 1} : RotatePiece(direction)
    \/ spawnTimers = 0 /\ locks < MaxDropLocks /\ HardDrop

InitDrop == InitGameWith(KindBags) \/ InitEdition

SpecDrop == InitDrop /\ [][NextDrop]_vars

\* the placement the ghost computation of the engine tells for the piece in play
Landed ==
    [currentPiece EXCEPT !.row = IF app = "shatter"
                                 THEN calculateGhostPosition(grid, currentPiece)
                                 ELSE getGhostPosition(grid, currentPiece)]

\* C32: a hard drop of a piece at a valid placement lands it on the row the
\* ghost computation tells for its column and rotation and locks it in the
\* same step: the cells of the piece at that row are in the grid when the step
\* ends, the lock is counted, and the distance scored is the ghost row less
\* the row the piece started from.  Neon Shatter scores the distance as a hard
\* drop and, with the rows fallen before, as a soft drop; a lock of Neon
\* Edition in this specification is one of a hard drop.
C32_HardDropLandsOnGhost ==
    [][/\ (/\ app = "shatter" /\ op' = "HARD_DROP" /\ enabled
           /\ state = "PLAYING" /\ currentPiece # NoPiece
           /\ Helpers_isValidPosition(grid, shapeOf(currentPiece),
                                      currentPiece.row, currentPiece.col))
          => /\ grid' = placeOnBoard(grid, Landed)
             /\ locks' = locks + 1
             /\ findCompletedLines(grid') = <<>>
                  => score' = score + (Landed.row - currentPiece.row) * HARD_DROP
                              + (distanceFallen + Landed.row - currentPiece.row) * SOFT_DROP
       /\ (/\ app = "edition" /\ op' = "lockPiece"
           /\ canPlacePiece(grid, currentPiece, 0, 0))
          => /\ gridBefore' = BoardLockPiece(grid, Landed)
             /\ currentPiece' = Landed
             /\ locks' = locks + 1]_vars

\* a piece of Neon Shatter that a turn has lifted from the floor has been
\* dropped, and a piece of Neon Edition has been dropped over a locked one
C32_Witness ==
    \/ app = "shatter" /\ op = "HARD_DROP" /\ locks = 1 /\ score > 0
    \/ /\ app = "edition" /\ op = "lockPiece" /\ locks = 2
       /\ currentPiece.row < getGhostPosition(EmptyGrid(TOTAL_HEIGHT, WIDTH), currentPiece)

\* C35: a new piece of a Neon engine starts in the buffer rows above the
\* visible rows: on the empty grid a piece at its spawn row and column, of
\* any kind, can descend HEIGHT rows before it rests on the floor.
C35_SpawnAboveVisibleRows ==
    (/\ app \in {"shatter", "edition"} /\ currentPiece # NoPiece
     /\ grid = EmptyGrid(TOTAL_HEIGHT, WIDTH)
     /\ currentPiece = (IF app = "shatter" THEN newPiece(currentPiece.type)
                        ELSE Piece(currentPiece.type)))
        => Landed.row - currentPiece.row >= HEIGHT


(***************************************************************************)
(* The ghost row of a Neon Shatter piece                                   *)
(***************************************************************************)
GhostLimit == [locks |-> MaxDropLocks, moves |-> MaxGridMoves, fall |-> MaxGridFall,
               keys |-> MOVES \cup {"HARD_DROP", "HOLD"}]

\* the first two pieces of a game are moved and turned, the first one falls
\* and is held, and every piece is dropped with the hard drop key
NextGhost ==
    \/ GameStart
    \/ locks = 0 /\ FixedUpdate({Geometric}, GhostLimit)
    \/ locks <= 1 /\ \E action \in MOVES : KeyDown(action, {Geometric}, GhostLimit)
    \/ locks = 0 /\ KeyDown("HOLD", {Geometric}, GhostLimit)
    \/ KeyDown("HARD_DROP", {Geometric}, GhostLimit)

SpecGhost == InitGameWith(KindBags) /\ [][NextGhost]_vars

\* C33: whenever Neon Shatter has an active piece that is not locked, from
\* its construction on, Piece.ghostRow is the lowest row the piece reaches
\* from its row by downward moves alone, in its column and rotation on the
\* grid as it is.
C33_GhostRowIsLowestRow ==
    (app = "shatter" /\ currentPiece # NoPiece /\ ~locked)
        => ghostRow = calculateGhostPosition(grid, currentPiece)

\* a turn has lifted the piece from the floor, and its ghost row is below it
C33_Witness ==
    /\ app = "shatter" /\ state = "PLAYING" /\ currentPiece # NoPiece /\ ~locked
    /\ op \in {"ROTATE_CW", "ROTATE_CCW"}
    /\ ghostRow > currentPiece.row


(***************************************************************************)
(* The high scores of Neon Shatter.  The browser has stored no high score  *)
(* when the game is constructed, and the page starts one game: the entries *)
(* of the list are those this game has added.                              *)
(***************************************************************************)
\* entries of the list of high scores explored
MaxSaves == 3

SaveLimit == [locks |-> MaxControlLocks, moves |-> MaxGridMoves, fall |-> MaxGridFall,
              keys |-> {"HARD_DROP"}, saves |-> MaxSaves]

\* the pieces are dropped and the game loop runs on when the game is over
NextHighScore ==
    \/ GameStart
    \/ FixedUpdate(Told, SaveLimit)
    \/ KeyDown("HARD_DROP", Told, SaveLimit)

SpecHighScore == InitControl /\ [][NextHighScore]_vars

\* C34: a finished game of Neon Shatter adds at most one entry to the list of
\* high scores, however long the game stays in GAME_OVER, and the list is
\* sorted by score in descending order and has at most 10 entries.
C34_OneEntryPerGame ==
    app = "shatter"
        => /\ Len(highScores) <= 1
           /\ Len(highScores) <= 10
           /\ \A i \in 1..(Len(highScores) - 1) : highScores[i] >= highScores[i + 1]


(***************************************************************************)
(* Neon Edition in the spawn delay: the commands and the ticks of the game *)
(* loop that arrive between a lock and the callback that spawns the next   *)
(* piece are explored as well.  The first piece is moved and turned.       *)
(***************************************************************************)
NextSpawnDelay ==
    \/ Start
    \/ SpawnTimer
    \/ Update
    \/ SoftDrop
    \/ HardDrop
    \/ locks = 0 /\ \E direction \in {-1, 1} : MovePiece(direction)
    \/ locks = 0 /\ \E direction \in {-1, 1} : RotatePiece(direction)

SpecSpawnDelay == InitEdition /\ [][NextSpawnDelay]_vars

\* C37: a piece of Neon Edition is locked once: while the spawn of the next
\* piece is pending, the locked piece, the grid, the hold slot and the count
\* of locks are left alone by every step but the spawn itself, and no more
\* than one spawn is pending at a time.
C37_LockedOnce ==
    [][app = "edition" =>
          /\ spawnTimers' <= 1
          /\ (spawnTimers > 0 /\ op' # "spawnPiece")
                => /\ locks' = locks
                   /\ currentPiece' = currentPiece
                   /\ grid' = grid
                   /\ holdPiece' = holdPiece]_vars

====
